---- MODULE Spec2Model ----
(***************************************************************************)
(* A model of the schema-to-type-model compiler of                         *)
(* propulsionworks/cloudformation: the allOf merge (object.ts), the type   *)
(* model (type-nodes.ts), the schema walker and attribute analysis         *)
(* (resource-builder.ts), the view simplifier                              *)
(* (resource-type-simplifier.ts), the renderer (code-generator.ts) and the *)
(* emit loop of build/generate.ts.                                         *)
(*                                                                         *)
(* JSON values are encoded as strings ("n:1" is the number 1, "s:a" the    *)
(* string "a"), JSON objects as functions from keys to values, JSON arrays *)
(* as sequences.  An object whose key order matters (the properties of an  *)
(* object type, the definitions table) is a sequence of <<name, value>>.   *)
(***************************************************************************)
EXTENDS Integers, Sequences, FiniteSets, TLC

VARIABLES
  pc,            \* position of the running program
  objects,       \* mergeObjects: the list of objects handed to the merge
  mergeOptions,  \* mergeObjects: the options handed to the merge
  merged,        \* mergeObjects: its result {value, conflicts}
  unionInput,    \* simplifyUnionType: the union type handed in
  unionResult,   \* simplifyUnionType: the type returned
  unionAgain,    \* simplifyUnionType applied to the previous result
  resourceSchema,  \* ResourceBuilder.#resourceSchema: the resource document
  thisProblems,    \* ResourceBuilder.#problems
  optionsProblems, \* what the reporter passed as options.problems received
  warnCalls,       \* every call of ResourceBuilder.#warn so far
  relevantKeys,    \* the RelevantKeys table (module state of the builder)
  root,            \* ResourceBuilder.#root: the ResourceType being built
  mode,            \* ResourceTypeSimplifier.mode
  referencedNames, \* CodeGenerator.#referencedNames
  statements,      \* main: the declarations of the properties and attributes types
  definitions,     \* main: the [name, declaration] pairs emitted so far
  thisPass,        \* main: definitions emitted in the current pass
  cursor,          \* main: position of the for loop over resource.definitions
  typeA,           \* isSameType: the first Type handed in
  typeB,           \* isSameType: the second Type handed in
  sameResult,      \* isSameType: what it returned
  template,        \* TemplateBuilder.#template
  templateBefore,  \* TemplateBuilder.#template as the last add call found it
  lastAdd,         \* TemplateBuilder: the last add call and whether it threw
  docText,         \* withDocumentation: the documentation handed in
  noDocumentation, \* CodeGenerator.#noDocumentation
  comment,         \* withDocumentation: the body of the comment attached
  reported,        \* ConsoleProblemReporter.#reported
  logged,          \* ConsoleProblemReporter: the console.error calls so far
  reportCalls      \* ConsoleProblemReporter: the message of every call so far

mergeVars == <<objects, mergeOptions, merged>>
unionVars == <<unionInput, unionResult, unionAgain>>
buildVars ==
  <<resourceSchema, thisProblems, optionsProblems, warnCalls, relevantKeys, root>>
emitVars == <<mode, referencedNames, statements, definitions, thisPass, cursor>>
sameVars == <<typeA, typeB, sameResult>>
templateVars == <<template, templateBefore, lastAdd>>
commentVars == <<docText, noDocumentation, comment>>
reporterVars == <<reported, logged, reportCalls>>
libVars == <<sameVars, templateVars, commentVars, reporterVars>>
vars == <<pc, mergeVars, unionVars, buildVars, emitVars, libVars>>

None == "none"

\* the components that take no part in the specification at hand
SameIdle == typeA = None /\ typeB = None /\ sameResult = None
TemplateIdle == template = None /\ templateBefore = None /\ lastAdd = None
CommentIdle == docText = None /\ noDocumentation = FALSE /\ comment = None
ReporterIdle == reported = {} /\ logged = <<>> /\ reportCalls = <<>>
LibIdle == SameIdle /\ TemplateIdle /\ CommentIdle /\ ReporterIdle

\* ---------------------------------------------------------------- helpers

Restrict(f, D) == [k \in D |-> f[k]]

Range(s) == {s[i] : i \in 1..Len(s)}

\* Body applied to a value that is computed once
With(value, Body(_)) == CHOOSE result \in {Body(x) : x \in {value}} : TRUE

RECURSIVE SeqOfSet(_)
SeqOfSet(S) ==
  IF S = {} THEN <<>>
  ELSE LET x == CHOOSE y \in S : TRUE IN <<x>> \o SeqOfSet(S \ {x})

RECURSIVE Concat(_)
Concat(ss) == IF ss = <<>> THEN <<>> ELSE Head(ss) \o Concat(Tail(ss))

\* [...new Set(xs)]: first occurrences, in order
RECURSIVE Unique(_)
Unique(xs) ==
  IF xs = <<>> THEN <<>>
  ELSE LET r == Unique(SubSeq(xs, 1, Len(xs) - 1))
           x == xs[Len(xs)]
       IN IF x \in Range(r) THEN r ELSE Append(r, x)

\* all sequences over S of length lo..hi
SeqsOf(S, lo, hi) == UNION {[1..n -> S] : n \in lo..hi}

\* ---------------------------------------------------------- object merge
\* src/unnamed/part_004 lines 76-225 (build-lib/object.ts)

\* Keys whose JSON value is an array, keys whose value is an object, and
\* keys whose value may be either a scalar or an array; a value of the last
\* kind is written [arr |-> FALSE, v |-> scalar] or [arr |-> TRUE, v |-> list].
ArrayKeys == {"required", "enum", "allOf", "anyOf", "oneOf"}
ObjectKeys == {"properties", "items", "patternProperties"}
EitherKeys == {"examples", "format", "pattern", "relationshipRef"}

\* Array.isArray(value) for the value held under `key`
IsArrayValue(key, value) ==
  IF key \in EitherKeys THEN value.arr ELSE key \in ArrayKeys

\* the elements `...value` spreads, or the value itself when it is no array
Spread(key, value) ==
  IF key \in EitherKeys
    THEN (IF value.arr THEN value.v ELSE <<value.v>>)
    ELSE (IF key \in ArrayKeys THEN value ELSE <<value>>)

AsArray(key, elems) ==
  IF key \in EitherKeys THEN [arr |-> TRUE, v |-> elems] ELSE elems

\* a !== b for the values two different fragments hold under `key`: arrays
\* and objects of different fragments are different objects, scalars are
\* compared by value
StrictlyDiffer(key, a, b) ==
  IF key \in ObjectKeys \/ IsArrayValue(key, a) \/ IsArrayValue(key, b)
    THEN TRUE
    ELSE a # b

MergeAllOfOptions ==
  [mergeArrayValues |-> [isList |-> TRUE, keys |-> {"required"}, flag |-> FALSE],
   overwriteValues |-> [all |-> FALSE, keys |-> {}],
   uniqueArrayValues |-> TRUE]

MergeDocsOptions ==
  [mergeArrayValues |->
     [isList |-> TRUE, flag |-> FALSE,
      keys |-> {"examples", "format", "pattern", "relationshipRef"}],
   overwriteValues |-> [all |-> FALSE, keys |-> {}],
   uniqueArrayValues |-> FALSE]

\* the callback mergeObjects hands to mergeObjectsWith: the merged value
\* and whether the key was pushed to `conflicts`
mergeValues(a, b, key, options) ==
  LET mergeArrays ==
        IF options.mergeArrayValues.isList
          THEN key \in options.mergeArrayValues.keys
          ELSE /\ options.mergeArrayValues.flag
               /\ IsArrayValue(key, a)
               /\ IsArrayValue(key, b)
      result == Spread(key, a) \o Spread(key, b)
  IN IF mergeArrays
       THEN [value |-> AsArray(key, IF options.uniqueArrayValues
                                      THEN Unique(result) ELSE result),
             conflict |-> FALSE]
     ELSE IF options.overwriteValues.all \/ key \in options.overwriteValues.keys
       THEN [value |-> b, conflict |-> FALSE]
     ELSE [value |-> a, conflict |-> StrictlyDiffer(key, a, b)]

\* one object of the `for (const object of objects)` loop folded into the
\* result, key by key
RECURSIVE mergeEntries(_, _, _, _)
mergeEntries(acc, object, keys, options) ==
  IF keys = <<>> THEN acc
  ELSE LET key == Head(keys)
           value == object[key]
       IN IF key \notin DOMAIN acc.value
            THEN mergeEntries(
                   [acc EXCEPT !.value = (key :> value) @@ acc.value],
                   object, Tail(keys), options)
            ELSE LET m == mergeValues(acc.value[key], value, key, options) IN
                 mergeEntries(
                   [value |-> [acc.value EXCEPT ![key] = m.value],
                    conflicts |-> IF m.conflict
                                    THEN Append(acc.conflicts, key)
                                    ELSE acc.conflicts],
                   object, Tail(keys), options)

RECURSIVE mergeRest(_, _, _)
mergeRest(acc, rest, options) ==
  IF rest = <<>> THEN acc
  ELSE mergeRest(
         mergeEntries(acc, Head(rest), SeqOfSet(DOMAIN Head(rest)), options),
         Tail(rest), options)

\* `const first = objects.pop()`: the object the result starts from, and
\* the objects left in the list for the loop
mergeStart(objs) ==
  [first |-> objs[Len(objs)], rest |-> SubSeq(objs, 1, Len(objs) - 1)]

\* mergeObjects (with mergeObjectsWith inlined): {value, conflicts}; an
\* empty list fails the assertion of mergeObjectsWith
mergeObjects(objs, options) ==
  IF objs = <<>> THEN "throw"
  ELSE LET start == mergeStart(objs) IN
       mergeRest([value |-> start.first, conflicts |-> <<>>], start.rest, options)

MergeIdle ==
  /\ objects = <<>>
  /\ mergeOptions = None
  /\ merged = None

\* ------------------------------------------------------------ type model
\* src/build-lib/type-nodes.ts

TString(id) == [type |-> "string", id |-> id]
TPrim(t, id) == [type |-> t, id |-> id]
TConst(v, id) == [type |-> "const", id |-> id, value |-> v]
TEnum(vs, id) == [type |-> "enum", id |-> id, values |-> vs]
TArray(t, id) == [type |-> "array", id |-> id, items |-> [type |-> t]]
TRecord(t, id) == [type |-> "record", id |-> id, value |-> t]
TRef(n, id) == [type |-> "reference", id |-> id, name |-> n]
TUnion(ts, id) == [type |-> "union", id |-> id, items |-> ts]
TObject(ps, req, id) ==
  [type |-> "object", id |-> id, properties |-> ps, required |-> req]

\* mutant: two types are the same as soon as their tags are
isSameTypeByTag(a, b) == a.type = b.type

\* isSameType; the `a === b` shortcut of the source returns what the
\* structural comparison returns for one and the same node, so it is left
\* to the structural comparison.
RECURSIVE isSameType(_, _)
isSameType(a, b) ==
  IF a.type = "array" /\ b.type = "array"
    THEN isSameType(a.items.type, b.items.type)
  ELSE IF a.type = "const" /\ b.type = "const"
    THEN a.value = b.value
  ELSE IF a.type = "enum" /\ b.type = "enum"
    THEN /\ Len(a.values) = Len(b.values)
         /\ \A i \in 1..Len(a.values) : b.values[i] = a.values[i]
  ELSE IF a.type = "object" /\ b.type = "object"
    THEN /\ Len(a.required) = Len(b.required)
         /\ Len(a.properties) = Len(b.properties)
         /\ \A i \in 1..Len(a.required) : b.required[i] = a.required[i]
         /\ \A i \in 1..Len(a.properties) :
              /\ b.properties[i][1] = a.properties[i][1]
              /\ isSameType(a.properties[i][2].type, b.properties[i][2].type)
  ELSE IF a.type = "record" /\ b.type = "record"
    THEN isSameType(a.value, b.value)
  ELSE IF a.type = "reference" /\ b.type = "reference"
    THEN a.name = b.name
  ELSE IF a.type = "union" /\ b.type = "union"
    THEN /\ Len(a.items) = Len(b.items)
         /\ \A i \in 1..Len(a.items) : isSameType(a.items[i], b.items[i])
  ELSE a.type = b.type

\* the while loop of simplifyUnionType: `working` is consumed from the
\* front, a union is replaced by its members, anything else is kept unless
\* an equal member was kept before
RECURSIVE simplifyLoop(_, _)
simplifyLoop(items, working) ==
  IF working = <<>> THEN items
  ELSE LET current == Head(working) IN
    IF current.type = "union"
      THEN simplifyLoop(items, current.items \o Tail(working))
    ELSE IF ~ \E i \in 1..Len(items) : isSameType(items[i], current)
      THEN simplifyLoop(Append(items, current), Tail(working))
    ELSE simplifyLoop(items, Tail(working))

\* mutant: nested unions are kept as members instead of being flattened
RECURSIVE simplifyLoopNoFlatten(_, _)
simplifyLoopNoFlatten(items, working) ==
  IF working = <<>> THEN items
  ELSE LET current == Head(working) IN
    IF ~ \E i \in 1..Len(items) : isSameType(items[i], current)
      THEN simplifyLoopNoFlatten(Append(items, current), Tail(working))
    ELSE simplifyLoopNoFlatten(items, Tail(working))

\* mutant: members are kept without looking for an equal earlier member
RECURSIVE simplifyLoopNoDedupe(_, _)
simplifyLoopNoDedupe(items, working) ==
  IF working = <<>> THEN items
  ELSE LET current == Head(working) IN
    IF current.type = "union"
      THEN simplifyLoopNoDedupe(items, current.items \o Tail(working))
    ELSE simplifyLoopNoDedupe(Append(items, current), Tail(working))

simplifyUnionItemsNoFlatten(type) == simplifyLoopNoFlatten(<<>>, type.items)

simplifyUnionItemsNoDedupe(type) == simplifyLoopNoDedupe(<<>>, type.items)

simplifyUnionItems(type) == simplifyLoop(<<>>, type.items)

simplifyUnionType(type) ==
  LET items == simplifyUnionItems(type) IN
    IF Len(items) = 0 THEN [type |-> "unknown", id |-> type.id]
    ELSE IF Len(items) = 1 THEN items[1]
    ELSE [type EXCEPT !.items = items]

\* -------------------------------------------------------- schema walker
\* src/unnamed/part_004 lines 227-1356 (build-lib/resource-builder.ts)
\*
\* A schema is a function from its keys to their values.  "properties",
\* "patternProperties" and "definitions" hold sequences of <<name, schema>>;
\* "$ref" holds the parsed reference [inDoc |-> it starts with "#/",
\* parts |-> the segments after "#/"]; locations are "/"-joined strings.

Has(schema, key) == key \in DOMAIN schema

Without(schema, keys) == Restrict(schema, DOMAIN schema \ keys)

EmptyObject == [k \in {} |-> TRUE]

\* posix.join(location, segment)
Join(location, segment) ==
  IF location = "/" THEN "/" \o segment ELSE location \o "/" \o segment

IgnorableKeys == {"dependencies"}

SchemaDocumentationKeys ==
  { "$comment", "default", "description", "examples", "exclusiveMaximum",
    "exclusiveMinimum", "format", "insertionOrder", "maximum", "maxItems",
    "maxLength", "maxProperties", "minimum", "minItems", "minLength",
    "minProperties", "multipleOf", "pattern", "relationshipRef", "title",
    "uniqueItems" }

RelevantKeys ==
  [ any |-> {},
    array |-> { "arrayType", "insertionOrder", "items", "maxItems", "maxLength",
                "minItems", "minLength", "type", "uniqueItems" },
    boolean |-> {"type"},
    const |-> {"const", "type"},
    enum |-> {"enum", "type"},
    integer |-> {"maximum", "minimum", "type"},
    null |-> {"type"},
    number |-> {"maximum", "minimum", "type"},
    object |-> { "additionalProperties", "anyOf", "oneOf", "properties",
                 "required", "type" },
    record |-> {"additionalProperties", "patternProperties", "type"},
    reference |-> {"$ref"},
    string |-> {"format", "maxLength", "minLength", "pattern", "type"},
    union |-> {"anyOf", "oneOf"},
    unknown |-> {} ]

\* The walker's running state: the #warn calls made so far (w), the
\* locations in #ignoreExtraKeyLocations (ign), the RelevantKeys table (rk)
\* and whether an assertion has failed (x).
WalkState(rk) == [w |-> <<>>, ign |-> {}, rk |-> rk, x |-> FALSE]

\* #warn(location, message)
Warn(st, location, message) ==
  IF st.x THEN st
  ELSE [st EXCEPT !.w = Append(@, [location |-> location, message |-> message])]

Throw(st) == [st EXCEPT !.x = TRUE]

\* #warnExtraKeys for a single type name: `allowed` is the table's own
\* array, so what is pushed to it stays in the table
warnExtraKeys(schema, type, location, st) ==
  IF st.x \/ location \in st.ign THEN st
  ELSE
    LET allowed ==
          st.rk[type] \cup IgnorableKeys \cup SchemaDocumentationKeys
            \cup (IF type = "reference" THEN {"type"} ELSE {})
            \cup (IF Has(schema, "additionalProperties")
                     /\ schema["additionalProperties"] = FALSE
                  THEN {"additionalProperties"} ELSE {})
            \cup (IF type = "record" /\ Has(schema, "required")
                     /\ Len(schema["required"]) = 0
                  THEN {"required"} ELSE {})
        st1 == [st EXCEPT !.rk[type] = allowed]
    IN IF DOMAIN schema \ allowed # {}
         THEN Warn(st1, location, "ignored extra keys")
         ELSE st1

\* #warnExtraKeys for a list of type names: `allowed` is a fresh array
warnExtraKeysOfTypes(schema, types, location, st) ==
  IF location \in st.ign THEN st
  ELSE
    LET allowed ==
          UNION {st.rk[t] : t \in types} \cup IgnorableKeys
            \cup SchemaDocumentationKeys
            \cup (IF Has(schema, "additionalProperties")
                     /\ schema["additionalProperties"] = FALSE
                  THEN {"additionalProperties"} ELSE {})
    IN IF DOMAIN schema \ allowed # {}
         THEN Warn(st, location, "ignored extra keys")
         ELSE st

isObjectSchema(schema) ==
  /\ (~ Has(schema, "type") \/ schema["type"] = "object")
  /\ Has(schema, "properties")

isRecordSchema(schema) ==
  \/ Has(schema, "type") /\ schema["type"] = "object" /\ ~ Has(schema, "properties")
  \/ ~ Has(schema, "type") /\ Has(schema, "patternProperties")

isStringSchema(schema) ==
  \/ Has(schema, "type") /\ schema["type"] = "string"
  \/ ~ Has(schema, "type") /\ (Has(schema, "format") \/ Has(schema, "pattern"))

\* #mergeSchemas: mergeObjects, and a warning when it reports conflicts
mergeSchemas(objs, options, location, st) ==
  With(mergeObjects(objs, options),
       LAMBDA m :
         [value |-> m.value,
          s |-> IF m.conflicts # <<>>
                  THEN Warn(st, location,
                            "found conflicts while merging schemas for keys")
                  ELSE st])

\* #mergeAllOf
mergeAllOf(schema, location, st) ==
  IF Has(schema, "allOf")
    THEN mergeSchemas(<<Without(schema, {"allOf"})>> \o schema["allOf"],
                      MergeAllOfOptions, location, st)
    ELSE [value |-> schema, s |-> st]

\* the array-length correction of #extractDocumentation
FixArrayLengths(documentation) ==
  LET renamed(k) == IF k = "maxLength" THEN "maxItems"
                    ELSE IF k = "minLength" THEN "minItems" ELSE k
      keep == DOMAIN documentation \ {"maxLength", "minLength"}
      moved == {k \in {"maxLength", "minLength"} : k \in DOMAIN documentation}
  IN [k \in keep \cup {renamed(m) : m \in moved} |->
        IF k = "maxItems" /\ "maxLength" \in moved THEN documentation["maxLength"]
        ELSE IF k = "minItems" /\ "minLength" \in moved THEN documentation["minLength"]
        ELSE documentation[k]]

RECURSIVE extractDocumentation(_, _, _)
RECURSIVE extractEach(_, _, _)
RECURSIVE extractBranches(_, _, _, _)

\* schemas.map((x) => this.#extractDocumentation(x, location))
extractEach(schemas, location, st) ==
  IF schemas = <<>> THEN [results |-> <<>>, s |-> st]
  ELSE With(extractDocumentation(Head(schemas), location, st),
            LAMBDA r :
              With(extractEach(Tail(schemas), location, r.s),
                   LAMBDA rest : [results |-> <<r>> \o rest.results, s |-> rest.s]))

\* The documentation of the branches of anyOf/oneOf, when no branch has a
\* type of its own.
BranchDocs(results) ==
  IF \E i \in 1..Len(results) : DOMAIN results[i].type # {}
    THEN <<>>
    ELSE LET idx == {i \in 1..Len(results) : DOMAIN results[i].documentation # {}}
         IN [k \in 1..Cardinality(idx) |->
               results[CHOOSE i \in idx : Cardinality({j \in idx : j < i}) = k - 1]
                 .documentation]

\* #extractDocumentation: {documentation, type}, each the empty object
\* where the source returns undefined
\* !childResults.some((x) => x.type)
NoTypes(results) == \A i \in 1..Len(results) : DOMAIN results[i].type = {}

\* the anyOf / oneOf step of #extractDocumentation: when no branch has a
\* type of its own the keyword is deleted from the type and the branches'
\* documentation is kept for the merge
extractBranches(type, keyword, location, st) ==
  IF Has(type, keyword)
    THEN With(extractEach(type[keyword], location, st),
              LAMBDA each :
                IF NoTypes(each.results)
                  THEN [type |-> Without(type, {keyword}),
                        docs |-> BranchDocs(each.results), s |-> each.s]
                  ELSE [type |-> type, docs |-> <<>>, s |-> each.s])
    ELSE [type |-> type, docs |-> <<>>, s |-> st]

extractDocumentation(schema, location, st) ==
  With(mergeAllOf(schema, location, st), LAMBDA m :
  With(Restrict(m.value, DOMAIN m.value \cap SchemaDocumentationKeys), LAMBDA doc0 :
  With(Without(m.value, SchemaDocumentationKeys), LAMBDA type0 :
  With(IF Has(type0, "type") /\ type0["type"] = "array"
         THEN FixArrayLengths(doc0) ELSE doc0, LAMBDA doc1 :
  With(extractBranches(type0, "anyOf", location, m.s), LAMBDA any :
  With(extractBranches(any.type, "oneOf", location, any.s), LAMBDA one :
  With(mergeSchemas(<<doc1>> \o any.docs \o one.docs, MergeDocsOptions, location,
                    one.s), LAMBDA docs :
    [documentation |-> docs.value, type |-> one.type, s |-> docs.s])))))))

\* an array-valued "type" is written as the name of its list of type names
MultiTypes ==
  ("[string,number]" :> <<"string", "number">>)
    @@ ("[string,string]" :> <<"string", "string">>)
    @@ ("[boolean]" :> <<"boolean">>)

\* Array.isArray(schema.type)
IsMultiType(schema) == Has(schema, "type") /\ schema["type"] \in DOMAIN MultiTypes

\* `${i}` for the indexes the model uses
IndexName(i) == <<"0", "1", "2", "3", "4", "5", "6", "7", "8", "9">>[i + 1]

\* the value a name maps to in a sequence of <<name, value>>
HasName(entries, name) == \E i \in 1..Len(entries) : entries[i][1] = name

ValueOf(entries, name) ==
  entries[CHOOSE i \in 1..Len(entries) :
            /\ entries[i][1] = name
            /\ \A j \in (i + 1)..Len(entries) : entries[j][1] # name][2]

NameMapKeys == {"properties", "patternProperties", "definitions"}

\* the loop of #walkRefType that follows the parts of a reference from the
\* resource document: the schema it ends at, or found |-> FALSE.  `inMap`
\* says that `resolved` is a name-to-schema table.
RECURSIVE resolveParts(_, _, _)
resolveParts(resolved, inMap, parts) ==
  IF parts = <<>> THEN [found |-> TRUE, schema |-> resolved]
  ELSE IF inMap
    THEN IF HasName(resolved, Head(parts))
           THEN resolveParts(ValueOf(resolved, Head(parts)), FALSE, Tail(parts))
           ELSE [found |-> FALSE]
    ELSE IF Head(parts) \in DOMAIN resolved
           THEN resolveParts(resolved[Head(parts)], Head(parts) \in NameMapKeys,
                             Tail(parts))
           ELSE [found |-> FALSE]

RECURSIVE JoinAll(_, _)
JoinAll(location, parts) ==
  IF parts = <<>> THEN location
  ELSE JoinAll(Join(location, Head(parts)), Tail(parts))

RECURSIVE walkType(_, _, _)
RECURSIVE walkObjectType(_, _, _)
RECURSIVE walkProperties(_, _, _)
RECURSIVE walkBranches(_, _, _, _)
RECURSIVE walkPatterns(_, _, _)
RECURSIVE walkUnionItems(_, _, _, _, _)
RECURSIVE walkTypeNames(_, _, _, _)
RECURSIVE walkTypeEnumFirst(_, _, _)

\* #walkArrayType
walkArrayType(schema, location, st) ==
  With(warnExtraKeys(schema, "array", location, st), LAMBDA st1 :
  With(Join(location, "items"), LAMBDA itemsLocation :
    IF Has(schema, "items")
      THEN With(extractDocumentation(schema["items"], itemsLocation, st1), LAMBDA e :
           With(walkType(e.type, itemsLocation, e.s), LAMBDA t :
             [t |-> [type |-> "array", id |-> location,
                     items |-> [type |-> t.t, documentation |-> e.documentation]],
              s |-> t.s]))
      ELSE [t |-> [type |-> "array", id |-> location,
                   items |-> [type |-> [type |-> "any", id |-> itemsLocation]]],
            s |-> st1]))

\* mutant: every primitive is walked to the string Type
walkPrimitiveTypeAsString(schema, type, location, st) ==
  [t |-> [type |-> "string", id |-> location],
   s |-> warnExtraKeys(schema, type, location, st)]

\* #walkBooleanType, #walkNullType, #walkNumberType, #walkStringType
walkPrimitiveType(schema, type, location, st) ==
  [t |-> [type |-> type, id |-> location],
   s |-> warnExtraKeys(schema, type, location, st)]

JsonPrimitives == {"n:1", "n:2", "s:a", "s:b", "b:true", "null"}

isJsonPrimitive(value) == value \in JsonPrimitives

\* #walkConstType
walkConstType(schema, location, st) ==
  IF ~ isJsonPrimitive(schema["const"])
    THEN [t |-> [type |-> "unknown", id |-> location], s |-> Throw(st)]
    ELSE [t |-> [type |-> "const", id |-> location, value |-> schema["const"]],
          s |-> warnExtraKeys(schema, "const", location, st)]

\* #walkEnumType
walkEnumType(schema, location, st) ==
  IF \E i \in 1..Len(schema["enum"]) : ~ isJsonPrimitive(schema["enum"][i])
    THEN [t |-> [type |-> "unknown", id |-> location], s |-> Throw(st)]
    ELSE [t |-> [type |-> "enum", id |-> location, values |-> schema["enum"]],
          s |-> warnExtraKeys(schema, "enum", location, st)]

\* schema.type.map((type) => this.#walkType({ ...schema, type }, location))
walkTypeNames(schema, names, location, st) ==
  IF names = <<>> THEN [items |-> <<>>, s |-> st]
  ELSE With(walkType([schema EXCEPT !["type"] = Head(names)], location, st),
            LAMBDA t :
              With(walkTypeNames(schema, Tail(names), location, t.s),
                   LAMBDA rest : [items |-> <<t.t>> \o rest.items, s |-> rest.s]))

\* #walkMultiType
walkMultiType(schema, location, st) ==
  LET names == MultiTypes[schema["type"]] IN
    IF Len(names) = 1
      THEN walkType([schema EXCEPT !["type"] = names[1]], location, st)
      ELSE With(walkTypeNames(schema, names, location,
                              [st EXCEPT !.ign = @ \cup {location}]),
                LAMBDA walked :
                  [t |-> simplifyUnionType(
                           [type |-> "union", id |-> location,
                            items |-> walked.items]),
                   s |-> warnExtraKeysOfTypes(
                           schema,
                           {walked.items[i].type : i \in 1..Len(walked.items)},
                           location, [walked.s EXCEPT !.ign = @ \ {location}])])

\* #walkProperty
walkProperty(propertySchema, location, st) ==
  With(extractDocumentation(propertySchema, location, st), LAMBDA e :
  With(walkType(e.type, location, e.s), LAMBDA t :
    [info |-> [documentation |-> e.documentation, type |-> t.t,
               isAttribute |-> FALSE, readOnly |-> FALSE],
     s |-> t.s]))

\* the loop of #walkObjectType over Object.entries(schema.properties)
walkProperties(entries, location, st) ==
  IF entries = <<>> THEN [properties |-> <<>>, s |-> st]
  ELSE With(walkProperty(Head(entries)[2],
                         Join(Join(location, "properties"), Head(entries)[1]), st),
            LAMBDA p :
              With(walkProperties(Tail(entries), location, p.s),
                   LAMBDA rest :
                     [properties |-> <<<<Head(entries)[1], p.info>>>>
                                       \o rest.properties,
                      s |-> rest.s]))

\* #walkRecordType
walkPatterns(entries, propLocation, st) ==
  IF entries = <<>> THEN [types |-> <<>>, s |-> st]
  ELSE With(walkType(Head(entries)[2], Join(propLocation, Head(entries)[1]), st),
            LAMBDA t :
              With(walkPatterns(Tail(entries), propLocation, t.s),
                   LAMBDA rest : [types |-> <<t.t>> \o rest.types, s |-> rest.s]))

walkRecordType(schema, location, st) ==
  IF ~ isRecordSchema(schema)
    THEN [t |-> [type |-> "unknown", id |-> location], s |-> Throw(st)]
  ELSE
    With(warnExtraKeys(schema, "record", location, st), LAMBDA st1 :
    With(Join(location, "patternProperties"), LAMBDA propLocation :
      IF Has(schema, "additionalProperties") /\ schema["additionalProperties"]
        THEN [t |-> [type |-> "unknown", id |-> location], s |-> Throw(st1)]
      ELSE IF ~ Has(schema, "patternProperties")
        THEN [t |-> [type |-> "record", id |-> location,
                     value |-> [type |-> "any", id |-> propLocation]],
              s |-> st1]
      ELSE With(walkPatterns(schema["patternProperties"], propLocation, st1),
                LAMBDA walked :
                  [t |-> [type |-> "record", id |-> location,
                          value |-> simplifyUnionType(
                                      [type |-> "union", id |-> propLocation,
                                       items |-> walked.types])],
                   s |-> walked.s])))

\* the anyOf/oneOf branches of #walkObjectType: each branch merged with the
\* sibling fields and walked as an object
walkBranches(rest, branches, location, st) ==
  IF branches = <<>> THEN [items |-> <<>>, s |-> st]
  ELSE With(mergeSchemas(<<rest, Head(branches)>>, MergeAllOfOptions, location, st),
            LAMBDA m :
       With(walkObjectType(m.value, location, m.s), LAMBDA t :
       With(walkBranches(rest, Tail(branches), location, t.s), LAMBDA others :
         [items |-> <<t.t>> \o others.items, s |-> others.s])))

\* #walkObjectType
walkObjectType(schema, location, st) ==
  IF Has(schema, "type") /\ schema["type"] # "object"
    THEN [t |-> [type |-> "unknown", id |-> location], s |-> Throw(st)]
  ELSE IF Has(schema, "allOf")
    THEN With(mergeAllOf(schema, location, st),
              LAMBDA m : walkObjectType(m.value, location, m.s))
  ELSE IF Has(schema, "anyOf") \/ Has(schema, "oneOf")
    THEN With(IF Has(schema, "anyOf") THEN "anyOf" ELSE "oneOf", LAMBDA keyword :
         With(walkBranches(Without(schema, {keyword}), schema[keyword], location, st),
              LAMBDA walked :
                [t |-> simplifyUnionType(
                         [type |-> "union", id |-> location, items |-> walked.items]),
                 s |-> walked.s]))
  ELSE IF ~ Has(schema, "properties")
    THEN walkRecordType(schema, location, st)
  ELSE With(walkProperties(schema["properties"], location,
                           warnExtraKeys(schema, "object", location, st)),
            LAMBDA walked :
              [t |-> [type |-> "object", id |-> location,
                      properties |-> walked.properties,
                      required |-> IF Has(schema, "required")
                                     THEN schema["required"] ELSE <<>>],
               s |-> walked.s])

\* #walkRefType
walkRefType(schema, location, st) ==
  With(warnExtraKeys(schema, "reference", location, st), LAMBDA st1 :
  With(schema["$ref"], LAMBDA ref :
    IF ref.inDoc /\ Len(ref.parts) = 2 /\ ref.parts[1] = "definitions"
      THEN [t |-> [type |-> "reference", id |-> location, name |-> ref.parts[2]],
            s |-> st1]
    ELSE IF ~ ref.inDoc
      THEN [t |-> [type |-> "unknown", id |-> location],
            s |-> Warn(st1, location, "invalid reference")]
    ELSE With(resolveParts(resourceSchema, FALSE, ref.parts), LAMBDA r :
           IF ~ r.found
             THEN [t |-> [type |-> "unknown", id |-> location],
                   s |-> Warn(st1, location, "invalid reference")]
             ELSE walkType(r.schema, JoinAll("/", ref.parts), st1))))

\* the items of #walkUnion: the branches of one keyword, each walked at
\* location/keyword/index
walkUnionItems(branches, keyword, i, location, st) ==
  IF i > Len(branches) THEN [items |-> <<>>, s |-> st]
  ELSE With(walkType(branches[i],
                     Join(Join(location, keyword), IndexName(i - 1)), st),
            LAMBDA t :
              With(walkUnionItems(branches, keyword, i + 1, location, t.s),
                   LAMBDA rest : [items |-> <<t.t>> \o rest.items, s |-> rest.s]))

\* #walkUnion
walkUnion(schema, location, st) ==
  With(walkUnionItems(IF Has(schema, "anyOf") THEN schema["anyOf"] ELSE <<>>,
                      "anyOf", 1, location,
                      warnExtraKeys(schema, "union", location, st)), LAMBDA any :
  With(walkUnionItems(IF Has(schema, "oneOf") THEN schema["oneOf"] ELSE <<>>,
                      "oneOf", 1, location, any.s), LAMBDA one :
  With(any.items \o one.items, LAMBDA items :
    IF Len(items) = 1
      THEN [t |-> items[1], s |-> one.s]
      ELSE [t |-> simplifyUnionType(
                    [type |-> "union", id |-> location, items |-> items]),
            s |-> one.s])))

\* the root `type` repeated by every branch of a two-key anyOf/oneOf schema
RepeatsType(schema, keyword) ==
  /\ Has(schema, keyword)
  /\ Cardinality(DOMAIN schema) = 2
  /\ Has(schema, "type")
  /\ \A i \in 1..Len(schema[keyword]) :
       /\ Has(schema[keyword][i], "type")
       /\ schema[keyword][i]["type"] = schema["type"]

\* mutant: the enum check comes before the reference and the const checks
walkTypeEnumFirst(schema, location, st) ==
  IF DOMAIN schema = {}
    THEN [t |-> [type |-> "any", id |-> location], s |-> st]
  ELSE IF RepeatsType(schema, "anyOf") \/ RepeatsType(schema, "oneOf")
    THEN walkTypeEnumFirst(Without(schema, {"type"}), location, st)
  ELSE IF Has(schema, "enum") THEN walkEnumType(schema, location, st)
  ELSE IF Has(schema, "$ref") THEN walkRefType(schema, location, st)
  ELSE IF Has(schema, "const") THEN walkConstType(schema, location, st)
  ELSE IF Has(schema, "type") /\ schema["type"] = "array"
    THEN walkArrayType(schema, location, st)
  ELSE IF IsMultiType(schema) THEN walkMultiType(schema, location, st)
  ELSE IF Has(schema, "type") /\ schema["type"] \in {"boolean", "integer", "number", "null"}
    THEN walkPrimitiveType(schema, schema["type"], location, st)
  ELSE IF isStringSchema(schema)
    THEN walkPrimitiveType(schema, "string", location, st)
  ELSE IF isObjectSchema(schema) \/ isRecordSchema(schema)
    THEN walkObjectType(schema, location, st)
  ELSE IF Has(schema, "anyOf") \/ Has(schema, "oneOf")
    THEN walkUnion(schema, location, st)
  ELSE [t |-> [type |-> "unknown", id |-> location],
        s |-> Warn(st, location, "unknown schema type")]

\* #walkType
walkType(schema, location, st) ==
  IF DOMAIN schema = {}
    THEN [t |-> [type |-> "any", id |-> location], s |-> st]
  ELSE IF RepeatsType(schema, "anyOf") \/ RepeatsType(schema, "oneOf")
    THEN walkType(Without(schema, {"type"}), location, st)
  ELSE IF Has(schema, "$ref") THEN walkRefType(schema, location, st)
  ELSE IF Has(schema, "const") THEN walkConstType(schema, location, st)
  ELSE IF Has(schema, "enum") THEN walkEnumType(schema, location, st)
  ELSE IF Has(schema, "type") /\ schema["type"] = "array"
    THEN walkArrayType(schema, location, st)
  ELSE IF IsMultiType(schema) THEN walkMultiType(schema, location, st)
  ELSE IF Has(schema, "type") /\ schema["type"] \in {"boolean", "integer", "number", "null"}
    THEN walkPrimitiveType(schema, schema["type"], location, st)
  ELSE IF isStringSchema(schema)
    THEN walkPrimitiveType(schema, "string", location, st)
  ELSE IF isObjectSchema(schema) \/ isRecordSchema(schema)
    THEN walkObjectType(schema, location, st)
  ELSE IF Has(schema, "anyOf") \/ Has(schema, "oneOf")
    THEN walkUnion(schema, location, st)
  ELSE [t |-> [type |-> "unknown", id |-> location],
        s |-> Warn(st, location, "unknown schema type")]

\* #walkDefinition
walkDefinition(schema, location, st) ==
  With(extractDocumentation(schema, location, st), LAMBDA e :
  With(walkType(e.type, location, e.s), LAMBDA t :
    [def |-> [documentation |-> e.documentation, type |-> t.t], s |-> t.s]))

\* the loop of build() over Object.entries(this.#resourceSchema.definitions)
RECURSIVE walkDefinitions(_, _)
walkDefinitions(entries, st) ==
  IF entries = <<>> THEN [definitions |-> <<>>, s |-> st]
  ELSE With(walkDefinition(Head(entries)[2],
                           Join("/definitions", Head(entries)[1]), st),
            LAMBDA d :
              With(walkDefinitions(Tail(entries), d.s),
                   LAMBDA rest :
                     [definitions |-> <<<<Head(entries)[1], d.def>>>>
                                        \o rest.definitions,
                      s |-> rest.s]))

\* ------------------------------------------------- the ResourceType graph
\* A node of the graph is named by where it hangs: the owner (the root
\* properties type, a named definition, or the attributes type) and the
\* steps from the owner's type down to it.  Two addresses are equal exactly
\* when they name one and the same node object.

PropStep(name) == <<"prop", name>>
ItemsStep == <<"items", "">>
MemberStep(i) == <<"member", IndexName(i - 1)>>
ValueStep == <<"value", "">>

RootAddr == [owner |-> "properties", name |-> "", steps |-> <<>>]
DefAddr(name) == [owner |-> "definitions", name |-> name, steps |-> <<>>]
AttrAddr == [owner |-> "attributes", name |-> "", steps |-> <<>>]
Down(addr, step) == [addr EXCEPT !.steps = Append(@, step)]

HasDefinition(rt, name) == HasName(rt.definitions, name)
Definition(rt, name) == ValueOf(rt.definitions, name)

HasProperty(type, name) == HasName(type.properties, name)
Property(type, name) == ValueOf(type.properties, name)
PropertyNames(type) == [i \in 1..Len(type.properties) |-> type.properties[i][1]]

MemberIndex(key) == CHOOSE i \in 1..10 : IndexName(i - 1) = key

\* the type one step below `type`
StepDown(type, step) ==
  IF step[1] = "prop" THEN Property(type, step[2]).type
  ELSE IF step[1] = "items" THEN type.items.type
  ELSE IF step[1] = "member" THEN type.items[MemberIndex(step[2])]
  ELSE type.value

RECURSIVE Descend(_, _)
Descend(type, steps) ==
  IF steps = <<>> THEN type ELSE Descend(StepDown(type, Head(steps)), Tail(steps))

OwnerType(rt, addr) ==
  IF addr.owner = "properties" THEN rt.properties.type
  ELSE IF addr.owner = "attributes" THEN rt.attributes.type
  ELSE Definition(rt, addr.name).type

\* the Type node at an address
TypeAt(rt, addr) == Descend(OwnerType(rt, addr), addr.steps)

\* the PropertyInfo at an address whose last step is a property step
PropertyAt(rt, addr) ==
  LET n == Len(addr.steps) IN
    Property(Descend(OwnerType(rt, addr), SubSeq(addr.steps, 1, n - 1)),
             addr.steps[n][2])

ReplaceProperty(type, name, info) ==
  [type EXCEPT !.properties =
     [i \in 1..Len(@) |-> IF @[i][1] = name THEN <<name, info>> ELSE @[i]]]

\* `type` with `flag` of the PropertyInfo at `steps` set to `value`
RECURSIVE SetFlagIn(_, _, _, _)
SetFlagIn(type, steps, flag, value) ==
  LET step == Head(steps) IN
    IF step[1] = "prop"
      THEN LET info == Property(type, step[2]) IN
           ReplaceProperty(type, step[2],
             IF Len(steps) = 1
               THEN [info EXCEPT ![flag] = value]
               ELSE [info EXCEPT !.type = SetFlagIn(@, Tail(steps), flag, value)])
    ELSE IF step[1] = "items"
      THEN [type EXCEPT !.items.type = SetFlagIn(@, Tail(steps), flag, value)]
    ELSE IF step[1] = "member"
      THEN [type EXCEPT !.items[MemberIndex(step[2])] =
              SetFlagIn(@, Tail(steps), flag, value)]
    ELSE [type EXCEPT !.value = SetFlagIn(@, Tail(steps), flag, value)]

ReplaceDefinitionType(rt, name, type) ==
  [rt EXCEPT !.definitions =
     [i \in 1..Len(@) |->
        IF @[i][1] = name THEN <<name, [@[i][2] EXCEPT !.type = type]>> ELSE @[i]]]

ReplaceOwnerType(rt, addr, type) ==
  IF addr.owner = "properties" THEN [rt EXCEPT !.properties.type = type]
  ELSE IF addr.owner = "attributes" THEN [rt EXCEPT !.attributes.type = type]
  ELSE ReplaceDefinitionType(rt, addr.name, type)

\* property[flag] = value for the PropertyInfo at `addr`
SetFlag(rt, addr, flag, value) ==
  ReplaceOwnerType(rt, addr, SetFlagIn(OwnerType(rt, addr), addr.steps, flag, value))

RECURSIVE SetFlags(_, _, _, _)
SetFlags(rt, addrs, flag, value) ==
  IF addrs = <<>> THEN rt
  ELSE SetFlags(SetFlag(rt, Head(addrs), flag, value), Tail(addrs), flag, value)

\* -------------------------------------------------- attribute analysis

\* part.replaceAll(".", "") for the dotted names the model uses
MangledName(part) ==
  IF part = "Endpoint.Address" THEN "EndpointAddress" ELSE part

\* mutant: the entry under the mangled name is left in place
RenamePropertyKeepingOld(type, steps, from, to) ==
  LET RECURSIVE rename(_, _)
      rename(t, ss) ==
        IF ss = <<>>
          THEN [t EXCEPT !.properties =
                  SelectSeq(@, LAMBDA e : e[1] # to) \o <<<<to, Property(t, from)>>>>]
        ELSE LET step == Head(ss) IN
          IF step[1] = "prop"
            THEN ReplaceProperty(t, step[2],
                   [Property(t, step[2]) EXCEPT !.type = rename(@, Tail(ss))])
          ELSE IF step[1] = "items"
            THEN [t EXCEPT !.items.type = rename(@, Tail(ss))]
          ELSE IF step[1] = "member"
            THEN [t EXCEPT !.items[MemberIndex(step[2])] = rename(@, Tail(ss))]
          ELSE [t EXCEPT !.value = rename(@, Tail(ss))]
  IN rename(type, steps)

\* the mangled lookup of #findProperty: the property is stored under the
\* dotted name and its entry under the mangled name is deleted
RenameProperty(type, steps, from, to) ==
  LET RECURSIVE rename(_, _)
      rename(t, ss) ==
        IF ss = <<>>
          THEN [t EXCEPT !.properties =
                  SelectSeq(@, LAMBDA e : e[1] # from /\ e[1] # to)
                    \o <<<<to, Property(t, from)>>>>]
        ELSE LET step == Head(ss) IN
          IF step[1] = "prop"
            THEN ReplaceProperty(t, step[2],
                   [Property(t, step[2]) EXCEPT !.type = rename(@, Tail(ss))])
          ELSE IF step[1] = "items"
            THEN [t EXCEPT !.items.type = rename(@, Tail(ss))]
          ELSE IF step[1] = "member"
            THEN [t EXCEPT !.items[MemberIndex(step[2])] = rename(@, Tail(ss))]
          ELSE [t EXCEPT !.value = rename(@, Tail(ss))]
  IN rename(type, steps)

\* the `while (node.type === "reference" ...)` loop of #findProperty: the
\* address reached, or missing |-> TRUE when a named definition is absent
RECURSIVE Dereference(_, _)
Dereference(rt, addr) ==
  LET node == TypeAt(rt, addr) IN
    IF node.type = "reference"
      THEN IF HasDefinition(rt, node.name)
             THEN Dereference(rt, DefAddr(node.name))
             ELSE [missing |-> TRUE, addr |-> addr]
      ELSE [missing |-> FALSE, addr |-> addr]

\* #findProperty from the node at `addr`: the addresses of the PropertyInfo
\* nodes found (props), the graph after the mangled renames (root), and
\* whether an assertion failed (x)
RECURSIVE findFrom(_, _, _, _)
RECURSIVE findInMembers(_, _, _, _, _)

findInMembers(rt, addr, i, parts, mangle) ==
  IF i > Len(TypeAt(rt, addr).items) THEN [props |-> <<>>, root |-> rt, x |-> FALSE]
  ELSE With(findFrom(rt, Down(addr, MemberStep(i)), parts, mangle), LAMBDA r :
       With(findInMembers(r.root, addr, i + 1, parts, mangle), LAMBDA rest :
         [props |-> r.props \o rest.props, root |-> rest.root, x |-> r.x \/ rest.x]))

findFrom(rt, start, parts, mangle) ==
  IF parts = <<>> THEN [props |-> <<>>, root |-> rt, x |-> FALSE]
  ELSE
    With(Dereference(rt, start), LAMBDA d :
    With(d.addr, LAMBDA addr :
    With(TypeAt(rt, addr), LAMBDA node :
    With(Head(parts), LAMBDA part :
      IF d.missing \/ part = "" THEN [props |-> <<>>, root |-> rt, x |-> TRUE]
      ELSE IF node.type = "union"
        THEN findInMembers(rt, addr, 1, parts, mangle)
      ELSE IF part = "*"
        THEN IF node.type # "array"
               THEN [props |-> <<>>, root |-> rt, x |-> FALSE]
               ELSE findFrom(rt, Down(addr, ItemsStep), Tail(parts), mangle)
      ELSE IF node.type = "object"
        THEN With(IF /\ mangle
                     /\ ~ HasProperty(node, part)
                     /\ HasProperty(node, MangledName(part))
                    THEN ReplaceOwnerType(rt, addr,
                           RenameProperty(OwnerType(rt, addr), addr.steps,
                                          MangledName(part), part))
                    ELSE rt,
                  LAMBDA rt1 :
                    IF ~ HasProperty(TypeAt(rt1, addr), part)
                      THEN [props |-> <<>>, root |-> rt1, x |-> FALSE]
                    ELSE IF Len(parts) = 1
                      THEN [props |-> <<Down(addr, PropStep(part))>>, root |-> rt1,
                            x |-> FALSE]
                    ELSE findFrom(rt1, Down(addr, PropStep(part)), Tail(parts),
                                  mangle))
      ELSE [props |-> <<>>, root |-> rt, x |-> FALSE]))))

\* #findProperty(path, mangle); a path is the sequence of its segments:
\* "/properties/Id" is <<"properties", "Id">>
findProperty(rt, path, mangle) ==
  IF Len(path) >= 2 /\ path[1] = "properties"
    THEN findFrom(rt, RootAddr, Tail(path), mangle)
    ELSE [props |-> <<>>, root |-> rt, x |-> FALSE]

\* mutant: only the type itself is looked at
isValidAttributeTypeShallow(rt, type) ==
  type.type # "object" /\ type.type # "record"

\* #isValidAttributeType
RECURSIVE isValidAttributeType(_, _)
isValidAttributeType(rt, type) ==
  IF type.type = "array" THEN isValidAttributeType(rt, type.items.type)
  ELSE IF type.type = "reference"
    THEN /\ HasDefinition(rt, type.name)
         /\ isValidAttributeType(rt, Definition(rt, type.name).type)
  ELSE IF type.type = "union"
    THEN \A i \in 1..Len(type.items) : isValidAttributeType(rt, type.items[i])
  ELSE type.type # "object" /\ type.type # "record"

\* #allReadOnlyChildren; [x |-> TRUE] when the assertion on a reference fails
RECURSIVE allReadOnlyChildren(_, _)
allReadOnlyChildren(rt, node) ==
  IF node.type = "array" THEN allReadOnlyChildren(rt, node.items.type)
  ELSE IF node.type = "object"
    THEN [v |-> \A i \in 1..Len(node.properties) : node.properties[i][2].readOnly,
          x |-> FALSE]
  ELSE IF node.type = "reference"
    THEN IF HasDefinition(rt, node.name)
           THEN allReadOnlyChildren(rt, Definition(rt, node.name).type)
           ELSE [v |-> FALSE, x |-> TRUE]
  ELSE IF node.type = "union"
    THEN With([i \in 1..Len(node.items) |-> allReadOnlyChildren(rt, node.items[i])], LAMBDA rs :
         With({i \in 1..Len(rs) : rs[i].x \/ ~ rs[i].v}, LAMBDA stop :
         With(IF stop = {} THEN 1..Len(rs)
              ELSE 1..(CHOOSE i \in stop : \A j \in stop : i <= j), LAMBDA seen :
           [v |-> \A i \in 1..Len(rs) : rs[i].v,
            x |-> \E i \in seen : rs[i].x])))
  ELSE [v |-> FALSE, x |-> FALSE]

\* #anyAttributeChildren
RECURSIVE anyAttributeChildren(_, _)
anyAttributeChildren(rt, node) ==
  IF node.type = "array" THEN anyAttributeChildren(rt, node.items.type)
  ELSE IF node.type = "object"
    THEN [v |-> \E i \in 1..Len(node.properties) : node.properties[i][2].isAttribute,
          x |-> FALSE]
  ELSE IF node.type = "reference"
    THEN IF HasDefinition(rt, node.name)
           THEN anyAttributeChildren(rt, Definition(rt, node.name).type)
           ELSE [v |-> FALSE, x |-> TRUE]
  ELSE IF node.type = "union"
    THEN With([i \in 1..Len(node.items) |-> anyAttributeChildren(rt, node.items[i])], LAMBDA rs :
         With({i \in 1..Len(rs) : rs[i].x \/ ~ rs[i].v}, LAMBDA stop :
         With(IF stop = {} THEN 1..Len(rs)
              ELSE 1..(CHOOSE i \in stop : \A j \in stop : i <= j), LAMBDA seen :
           [v |-> \A i \in 1..Len(rs) : rs[i].v,
            x |-> \E i \in seen : rs[i].x])))
  ELSE [v |-> FALSE, x |-> FALSE]

\* #markChildren: the PropertyInfo nodes whose flag it sets, as addresses;
\* `limited` is FALSE where the source passes no maxDepth
RECURSIVE markedChildren(_, _, _, _, _, _)
markedChildren(rt, addr, limited, maxDepth, depth, stack) ==
  With(TypeAt(rt, addr), LAMBDA type :
    IF addr \in Range(stack) THEN {}
    ELSE IF type.type = "object"
      THEN UNION { {Down(addr, PropStep(type.properties[i][1]))}
                     \cup (IF ~ limited \/ depth < maxDepth
                             THEN markedChildren(
                                    rt, Down(addr, PropStep(type.properties[i][1])),
                                    limited, maxDepth, depth + 1, Append(stack, addr))
                             ELSE {})
                   : i \in 1..Len(type.properties) }
    ELSE IF type.type = "array"
      THEN markedChildren(rt, Down(addr, ItemsStep), limited, maxDepth, depth,
                          Append(stack, addr))
    ELSE IF type.type = "record"
      THEN markedChildren(rt, Down(addr, ValueStep), limited, maxDepth, depth,
                          Append(stack, addr))
    ELSE IF type.type = "reference"
      THEN IF HasDefinition(rt, type.name)
             THEN markedChildren(rt, DefAddr(type.name), limited, maxDepth, depth,
                                 Append(stack, addr))
             ELSE {}
    ELSE IF type.type = "union"
      THEN UNION { markedChildren(rt, Down(addr, MemberStep(i)), limited, maxDepth,
                                  depth, Append(stack, addr))
                   : i \in 1..Len(type.items) }
    ELSE {})

\* #markChildren(type, flag, value, maxDepth)
markChildren(rt, addr, flag, value, limited, maxDepth) ==
  SetFlags(rt, SeqOfSet(markedChildren(rt, addr, limited, maxDepth, 1, <<>>)),
           flag, value)

\* ------------------------------------------------------ ResourceBuilder
\* The state a build threads through its steps: the graph under
\* construction (root), the #warn calls made so far (w) and whether an
\* assertion has failed (x).

BuildState(rt, w, x) == [root |-> rt, w |-> w, x |-> x]

\* posix.dirname and posix.basename on a path given as its segments; the
\* root "/" is the empty sequence
dirname(path) == IF path = <<>> THEN <<>> ELSE SubSeq(path, 1, Len(path) - 1)
basename(path) == IF path = <<>> THEN "" ELSE path[Len(path)]

\* the parents one path contributes to getBreadcrumbs
RECURSIVE parentsOf(_)
parentsOf(current) ==
  LET next == dirname(current) IN
    IF next = <<"properties">> \/ next = current THEN <<>>
    ELSE (IF basename(next) # "*" THEN <<next>> ELSE <<>>) \o parentsOf(next)

RECURSIVE flatParents(_)
flatParents(paths) ==
  IF paths = <<>> THEN <<>> ELSE parentsOf(Head(paths)) \o flatParents(Tail(paths))

\* Array.prototype.sort with (a, b) => depth(b) - depth(a): stable, deepest
\* first
RECURSIVE deepestFirst(_, _)
deepestFirst(paths, depth) ==
  IF depth = 0 THEN SelectSeq(paths, LAMBDA q : Len(q) = 0)
  ELSE SelectSeq(paths, LAMBDA q : Len(q) = depth) \o deepestFirst(paths, depth - 1)

MaxDepthOf(paths) ==
  IF paths = <<>> THEN 0
  ELSE CHOOSE d \in {Len(paths[i]) : i \in 1..Len(paths)} :
         \A i \in 1..Len(paths) : Len(paths[i]) <= d

\* getBreadcrumbs
getBreadcrumbs(paths) ==
  LET unique == Unique(flatParents(paths))
      kept == SelectSeq(unique, LAMBDA q : q \notin Range(paths))
  IN deepestFirst(kept, MaxDepthOf(kept))

\* path.slice("/properties/".length).split("/").join(".")
RECURSIVE JoinWith(_, _)
JoinWith(parts, separator) ==
  IF Len(parts) = 1 THEN parts[1]
  ELSE parts[1] \o separator \o JoinWith(Tail(parts), separator)

AttributeName(path) == JoinWith(Tail(path), ".")

\* properties[name] = info on the insertion-ordered property table
PutProperty(properties, name, info) ==
  IF HasName(properties, name)
    THEN [i \in 1..Len(properties) |->
            IF properties[i][1] = name THEN <<name, info>> ELSE properties[i]]
    ELSE Append(properties, <<name, info>>)

HasAttributes(rt) == "attributes" \in DOMAIN rt

EmptyAttributes ==
  [type |-> [type |-> "object", id |-> "/attributes", properties |-> <<>>,
             required |-> <<>>]]

\* the type names of the model, split at "::"
TypeNameParts ==
  ("Test::Resource" :> <<"Test", "Resource">>)
    @@ ("Test::Unit::Resource" :> <<"Test", "Unit", "Resource">>)
    @@ ("AWS::Amplify::Branch" :> <<"AWS", "Amplify", "Branch">>)

\* typeName.startsWith("AWS::")
StartsWithAws(typeName) ==
  Len(TypeNameParts[typeName]) >= 2 /\ TypeNameParts[typeName][1] = "AWS"

\* mutant: only the first property a path resolves to is flagged
RECURSIVE flagAttributePropsFirstOnly(_, _, _, _)
flagAttributePropsFirstOnly(rt, props, hasWildcardPath, readOnly) ==
  IF props = <<>> THEN rt
  ELSE
    With(Head(props), LAMBDA prop :
    With(IF ~ hasWildcardPath /\ isValidAttributeType(rt, TypeAt(rt, prop))
           THEN markChildren(SetFlag(rt, prop, "isAttribute", TRUE),
                             prop, "isAttribute", TRUE, FALSE, 0)
           ELSE rt, LAMBDA rt1 :
      IF readOnly THEN SetFlag(rt1, prop, "readOnly", TRUE) ELSE rt1))

\* the loop over props in #addAttribute
RECURSIVE flagAttributeProps(_, _, _, _)
flagAttributeProps(rt, props, hasWildcardPath, readOnly) ==
  IF props = <<>> THEN rt
  ELSE
    With(Head(props), LAMBDA prop :
    With(IF ~ hasWildcardPath /\ isValidAttributeType(rt, TypeAt(rt, prop))
           THEN markChildren(SetFlag(rt, prop, "isAttribute", TRUE),
                             prop, "isAttribute", TRUE, FALSE, 0)
           ELSE rt, LAMBDA rt1 :
    With(IF readOnly THEN SetFlag(rt1, prop, "readOnly", TRUE) ELSE rt1, LAMBDA rt2 :
      flagAttributeProps(rt2, Tail(props), hasWildcardPath, readOnly))))

\* the entry #addAttribute writes into root.attributes.  A valid attribute
\* type holds no object or record, so no PropertyInfo is shared with the
\* properties graph through it.
WithAttribute(rt, name, info) ==
  With(IF HasAttributes(rt) THEN rt ELSE rt @@ [attributes |-> EmptyAttributes],
       LAMBDA rt1 :
         [rt1 EXCEPT !.attributes.type.properties = PutProperty(@, name, info),
                     !.attributes.type.required = Append(@, name)])

\* #addAttribute(path, readOnly), without a documenter
addAttribute(b, path, readOnly) ==
  IF b.x THEN b
  ELSE
    With(findProperty(b.root, path, StartsWithAws(b.root.typeName)), LAMBDA found :
      IF found.x THEN BuildState(found.root, b.w, TRUE)
      ELSE IF found.props = <<>>
        THEN BuildState(found.root,
                        Append(b.w, [location |-> "/readOnlyProperties",
                                     message |-> "bad reference"]),
                        FALSE)
      ELSE
        With("*" \in Range(path), LAMBDA hasWildcardPath :
        With(flagAttributeProps(found.root, found.props, hasWildcardPath, readOnly),
             LAMBDA rt1 :
        With(PropertyAt(rt1, found.props[1]), LAMBDA prop :
        With(IF \A i \in 1..Len(found.props) :
                  isSameType(prop.type, TypeAt(rt1, found.props[i]))
               THEN b.w
               ELSE Append(b.w, [location |-> "/readOnlyProperties",
                                 message |-> "attribute has multiple possible types"]),
             LAMBDA w1 :
        With(IF ~ hasWildcardPath /\ isValidAttributeType(rt1, prop.type)
               THEN WithAttribute(rt1, AttributeName(path),
                      [documentation |-> prop.documentation,
                       isAttribute |-> TRUE, readOnly |-> FALSE,
                       type |-> prop.type])
               ELSE rt1,
             LAMBDA rt2 : BuildState(rt2, w1, FALSE)))))))

RECURSIVE addAttributes(_, _, _)
addAttributes(b, paths, readOnly) ==
  IF paths = <<>> THEN b
  ELSE addAttributes(addAttribute(b, Head(paths), readOnly), Tail(paths), readOnly)

\* the body of the loop over the properties a breadcrumb resolves to
promote(b, prop) ==
  IF b.x THEN b
  ELSE
    With(allReadOnlyChildren(b.root, TypeAt(b.root, prop)), LAMBDA all :
    With(IF ~ all.x /\ all.v
           THEN markChildren(SetFlag(b.root, prop, "readOnly", TRUE),
                             prop, "readOnly", FALSE, TRUE, 1)
           ELSE b.root, LAMBDA rt1 :
    With(IF all.x THEN all ELSE anyAttributeChildren(rt1, TypeAt(rt1, prop)),
         LAMBDA any :
    With(IF ~ any.x /\ any.v THEN SetFlag(rt1, prop, "isAttribute", TRUE) ELSE rt1,
         LAMBDA rt2 : BuildState(rt2, b.w, all.x \/ any.x)))))

RECURSIVE promoteAll(_, _)
promoteAll(b, props) ==
  IF props = <<>> THEN b ELSE promoteAll(promote(b, Head(props)), Tail(props))

\* the loop over the breadcrumbs in #analyzePaths
RECURSIVE promoteBreadcrumbs(_, _)
promoteBreadcrumbs(b, breadcrumbs) ==
  IF breadcrumbs = <<>> \/ b.x THEN b
  ELSE With(findProperty(b.root, Head(breadcrumbs), FALSE), LAMBDA found :
         IF found.x THEN BuildState(found.root, b.w, TRUE)
         ELSE promoteBreadcrumbs(promoteAll(BuildState(found.root, b.w, FALSE),
                                            found.props),
                                 Tail(breadcrumbs)))

\* the first loop of #analyzePaths: the explicit paths
markExplicitPaths(b, schema) ==
  IF ~ Has(schema, "readOnlyProperties") THEN b
  ELSE addAttributes(b, schema["readOnlyProperties"], TRUE)

\* #analyzePaths
analyzePaths(b, schema) ==
  IF ~ Has(schema, "readOnlyProperties") THEN b
  ELSE promoteBreadcrumbs(markExplicitPaths(b, schema),
                          getBreadcrumbs(schema["readOnlyProperties"]))

\* the entries of ExtraAttributes for the type names of the model
ExtraAttributes == ("AWS::Amplify::Branch" :> <<"BranchName">>)

ExtraAttributePaths(typeName) ==
  [i \in 1..Len(ExtraAttributes[typeName]) |->
     <<"properties", ExtraAttributes[typeName][i]>>]

\* build(), up to the call of #analyzePaths: the root and the definitions
\* are walked into the graph (rt), s is the walker's state at that point
walkDocument(schema, rk) ==
  With(Restrict(schema, DOMAIN schema
         \cap {"allOf", "anyOf", "oneOf", "properties", "required"}),
       LAMBDA rootSchema :
  With(extractDocumentation(rootSchema, "/", WalkState(rk)), LAMBDA e :
  With(IF DOMAIN e.type = {} THEN Throw(e.s) ELSE e.s, LAMBDA st0 :
  With(IF st0.x THEN [t |-> [type |-> "unknown", id |-> "/"], s |-> st0]
       ELSE walkType(e.type, "/", st0), LAMBDA t :
  With(IF Has(schema, "definitions") /\ ~ t.s.x
         THEN walkDefinitions(schema["definitions"], t.s)
         ELSE [definitions |-> <<>>, s |-> t.s], LAMBDA defs :
    [rt |-> [typeName |-> schema["typeName"],
             definitions |-> defs.definitions,
             properties |-> [documentation |-> e.documentation, type |-> t.t]],
     s |-> defs.s])))))

\* what build() leaves behind: the graph, the #warn calls it made, the
\* RelevantKeys table, and whether it threw
build(schema, rk) ==
  With(walkDocument(schema, rk), LAMBDA walked :
  With(analyzePaths(BuildState(walked.rt, walked.s.w, walked.s.x), schema),
       LAMBDA b1 :
  With(IF schema["typeName"] \in DOMAIN ExtraAttributes
         THEN addAttributes(b1, ExtraAttributePaths(schema["typeName"]), FALSE)
         ELSE b1, LAMBDA b2 :
    [root |-> b2.root, w |-> b2.w, x |-> b2.x, rk |-> walked.s.rk])))

\* ---------------------------------------------- ResourceTypeSimplifier
\* The simplifier and the renderer tell nodes apart by identity, so they
\* work on handles: the Type (t), the address of the graph node it is (at,
\* NoAddr for a node created on the way), the address its children hang
\* from (base), and, for a union created on the way, its members (items).

NoAddr == [owner |-> "fresh", name |-> "", steps |-> <<>>]

GraphNode(rt, addr) == [t |-> TypeAt(rt, addr), at |-> addr, base |-> addr, items |-> <<>>]

FreshNode(type, base, items) == [t |-> type, at |-> NoAddr, base |-> base, items |-> items]

\* node.items of a union handle
MembersOfNode(rt, node) ==
  IF node.at = NoAddr THEN node.items
  ELSE [i \in 1..Len(node.t.items) |-> GraphNode(rt, Down(node.base, MemberStep(i)))]

\* an imported name is written "import:" and the name it imports
ImportedNames ==
  {"import:Tag", "import:ResourceDefinition", "import:ResourceDefinitionWithAttributes",
   "import:TemplatePolicyDocument"}

ImportedAs ==
  ("import:Tag" :> "Tag")
    @@ ("import:ResourceDefinition" :> "ResourceDefinition")
    @@ ("import:ResourceDefinitionWithAttributes" :> "ResourceDefinitionWithAttributes")
    @@ ("import:TemplatePolicyDocument" :> "TemplatePolicyDocument")

\* /Tags?$/.test(name) for the definition names of the model
EndsWithTag(name) == name \in {"Tag", "Tags"}

\* isTagObject
isTagObject(target) ==
  /\ target.type = "object"
  /\ Len(target.properties) = 2
  /\ HasProperty(target, "Key") /\ Property(target, "Key").type.type = "string"
  /\ HasProperty(target, "Value") /\ Property(target, "Value").type.type = "string"

\* mutant: every reference to a definition is expanded in place
shouldInlineAlways(target, simplifierMode) == TRUE

\* shouldInline
shouldInline(target, simplifierMode) ==
  /\ target.type # "enum"
  /\ (target.type # "object" \/ simplifierMode = "attributes")
  /\ target.type # "union"

\* the while loop of simplifyUnionType, on handles
RECURSIVE simplifyNodes(_, _, _)
simplifyNodes(rt, items, working) ==
  IF working = <<>> THEN items
  ELSE LET current == Head(working) IN
    IF current.t.type = "union"
      THEN simplifyNodes(rt, items, MembersOfNode(rt, current) \o Tail(working))
    ELSE IF ~ \E i \in 1..Len(items) : isSameType(items[i].t, current.t)
      THEN simplifyNodes(rt, Append(items, current), Tail(working))
    ELSE simplifyNodes(rt, items, Tail(working))

\* simplifyUnionType({...node, items}), on handles
simplifyUnionNode(rt, node, members) ==
  With(simplifyNodes(rt, <<>>, members),
       LAMBDA items :
         IF Len(items) = 0
           THEN FreshNode([type |-> "unknown", id |-> node.t.id], NoAddr, <<>>)
         ELSE IF Len(items) = 1 THEN items[1]
         ELSE FreshNode([node.t EXCEPT !.items = [i \in 1..Len(items) |-> items[i].t]],
                        NoAddr, items))

Diverged == FreshNode([type |-> "diverged", id |-> ""], NoAddr, <<>>)

\* mutant: no view drops a property
keepsPropertyAlways(info, simplifierMode) == TRUE

\* the filters of simplifyType over Object.entries(node.properties)
keepsProperty(info, simplifierMode) ==
  IF simplifierMode = "attributes" THEN info.isAttribute ELSE ~ info.readOnly

\* simplifyType; `fuel` bounds the depth of the recursion, and Diverged is
\* returned where it runs out
RECURSIVE simplifyType(_, _, _, _, _)
simplifyType(rt, simplifierMode, tagType, node, fuel) ==
  IF fuel = 0 THEN Diverged
  ELSE IF node.t.type = "object"
    THEN IF simplifierMode = "model" THEN node
         ELSE LET properties ==
                    SelectSeq(node.t.properties,
                              LAMBDA e : keepsProperty(e[2], simplifierMode))
                  required ==
                    IF simplifierMode = "attributes"
                      THEN [i \in 1..Len(properties) |-> properties[i][1]]
                      ELSE SelectSeq(node.t.required,
                                     LAMBDA x : HasName(properties, x))
              IN FreshNode([type |-> "object", id |-> node.t.id,
                            properties |-> properties, required |-> required],
                           node.base, <<>>)
  ELSE IF node.t.type = "reference"
    THEN IF node.t.name \in ImportedNames \/ ~ HasDefinition(rt, node.t.name)
           THEN node
         ELSE LET target == GraphNode(rt, DefAddr(node.t.name)) IN
           IF EndsWithTag(node.t.name) /\ tagType # None /\ isTagObject(target.t)
             THEN FreshNode([type |-> "reference", id |-> node.t.id, name |-> tagType],
                            NoAddr, <<>>)
           ELSE IF shouldInline(target.t, simplifierMode)
             THEN simplifyType(rt, simplifierMode, tagType, target, fuel - 1)
           ELSE node
  ELSE IF node.t.type = "union"
    THEN LET members == MembersOfNode(rt, node)
             simplified == [i \in 1..Len(members) |->
                              simplifyType(rt, simplifierMode, tagType, members[i],
                                           fuel - 1)]
         IN IF \E i \in 1..Len(simplified) : simplified[i] = Diverged
              THEN Diverged
              ELSE simplifyUnionNode(rt, node, simplified)
  ELSE node

\* ------------------------------------------------------- CodeGenerator
\* What is rendered is the TypeScript type node, without its comments.

KeywordTypeNode(keyword) == [kind |-> "keyword", keyword |-> keyword]
LiteralTypeNode(value) == [kind |-> "literal", literal |-> value]
ArrayTypeNode(elementType) == [kind |-> "array", elementType |-> elementType]
UnionTypeNode(types) == [kind |-> "union", types |-> types]
TypeReferenceNode(typeName, typeArguments) ==
  [kind |-> "reference", typeName |-> typeName, typeArguments |-> typeArguments]
TypeLiteralNode(members) == [kind |-> "typeLiteral", members |-> members]
PropertySignature(name, questionToken, type) ==
  [name |-> name, questionToken |-> questionToken, type |-> type]

\* the names of the model in byte order, as asciiCompare orders them
AsciiOrder ==
  << "A", "Arn", "B", "BranchName", "C", "D", "E", "Endpoint.Address", "EndpointAddress",
     "G", "H", "Id", "K", "Key", "M", "Meta", "Name", "Next", "P", "P.A", "P.B", "P.Next.Value", "P.Q",
     "P.Q.A", "P.Q.B", "P.Value", "Q", "R", "R.A", "R.B", "Tag", "Tags", "U",
     "Unused", "V", "Value", "W", "X" >>

AsciiRank(name) == CHOOSE i \in 1..Len(AsciiOrder) : AsciiOrder[i] = name

\* asciiCompare(a, b) < 0
asciiBefore(a, b) == AsciiRank(a) < AsciiRank(b)

\* entries.sort(([a], [b]) => asciiCompare(a, b)) on entries with distinct
\* names
sortEntries(entries) ==
  [k \in 1..Len(entries) |->
     entries[CHOOSE i \in 1..Len(entries) :
               Cardinality({j \in 1..Len(entries) :
                              asciiBefore(entries[j][1], entries[i][1])}) = k - 1]]

\* the wellKnownTypes main hands to the generator
WellKnownTypes == ("iam-policy" :> "import:TemplatePolicyDocument")

\* shouldAddUndefined
RECURSIVE shouldAddUndefined(_)
shouldAddUndefined(node) ==
  IF node.kind = "keyword"
    THEN node.keyword \notin {"any", "unknown", "undefined"}
  ELSE IF node.kind = "union"
    THEN \A i \in 1..Len(node.types) : shouldAddUndefined(node.types[i])
  ELSE TRUE

\* The generator: its #stack, its #referencedNames, whether an assertion
\* failed (x) and whether the recursion ran out of fuel (cut).
Generator(names) == [stack |-> <<>>, referencedNames |-> names, x |-> FALSE, cut |-> FALSE]

\* mutant: the generator remembers only the last name it referred to
createTypeReferenceLast(g, name, typeArguments) ==
  [out |-> TypeReferenceNode(IF name \in ImportedNames THEN ImportedAs[name] ELSE name,
                             typeArguments)
             @@ [symbol |-> name],
   g |-> [g EXCEPT !.referencedNames = {name}]]

\* createTypeReference(name, typeArguments); the node is annotated with the
\* symbol it was created for
createTypeReference(g, name, typeArguments) ==
  [out |-> TypeReferenceNode(IF name \in ImportedNames THEN ImportedAs[name] ELSE name,
                             typeArguments)
             @@ [symbol |-> name],
   g |-> [g EXCEPT !.referencedNames = @ \cup {name}]]

PrimitiveTypes == {"boolean", "integer", "number", "string"}

\* generatePrimitiveType
generatePrimitiveType(type) ==
  IF type = "boolean" THEN KeywordTypeNode("boolean")
  ELSE IF type \in {"integer", "number"} THEN KeywordTypeNode("number")
  ELSE IF type = "null" THEN LiteralTypeNode("null")
  ELSE KeywordTypeNode("string")

Failed(g) == g.x \/ g.cut

NoOutput == KeywordTypeNode("never")

RECURSIVE generateType(_, _, _, _, _)
RECURSIVE generateMembers(_, _, _, _, _, _, _)
RECURSIVE generateTypes(_, _, _, _, _)
RECURSIVE generateByType(_, _, _, _, _)

\* generateOptionalPropertyType
generateOptionalPropertyType(rt, simplifier, g, node, info, required, fuel) ==
  LET wellKnown == /\ Has(info.documentation, "wellKnownType")
                   /\ info.documentation["wellKnownType"] \in DOMAIN WellKnownTypes
  IN With(IF wellKnown
            THEN createTypeReference(
                   g, WellKnownTypes[info.documentation["wellKnownType"]], <<>>)
            ELSE generateType(rt, simplifier, g, node, fuel),
          LAMBDA r :
            IF required \/ Failed(r.g) \/ ~ shouldAddUndefined(r.out) THEN r
            ELSE IF r.out.kind = "union"
              THEN [out |-> UnionTypeNode(Append(r.out.types,
                                                 KeywordTypeNode("undefined"))),
                    g |-> r.g]
            ELSE [out |-> UnionTypeNode(<<r.out, KeywordTypeNode("undefined")>>),
                  g |-> r.g])

\* the loop of generateObjectType over the sorted property entries
generateMembers(rt, simplifier, g, object, entries, i, fuel) ==
  IF i > Len(entries) \/ Failed(g) THEN [out |-> <<>>, g |-> g]
  ELSE
    LET name == entries[i][1]
        required == name \in Range(object.t.required)
    IN With(generateOptionalPropertyType(
              rt, simplifier, g, GraphNode(rt, Down(object.base, PropStep(name))),
              entries[i][2], required, fuel),
            LAMBDA r :
              With(generateMembers(rt, simplifier, r.g, object, entries, i + 1, fuel),
                   LAMBDA rest :
                     [out |-> <<PropertySignature(name, ~ required, r.out)>>
                                \o rest.out,
                      g |-> rest.g]))

\* node.items.map((item) => this.generateType(item))
generateTypes(rt, simplifier, g, nodes, fuel) ==
  IF nodes = <<>> \/ Failed(g) THEN [out |-> <<>>, g |-> g]
  ELSE With(generateType(rt, simplifier, g, Head(nodes), fuel),
            LAMBDA r :
              With(generateTypes(rt, simplifier, r.g, Tail(nodes), fuel),
                   LAMBDA rest : [out |-> <<r.out>> \o rest.out, g |-> rest.g]))

\* generateObjectType
generateObjectType(rt, simplifier, g, node, fuel) ==
  IF Len(node.t.properties) = 0
    THEN [out |-> TypeReferenceNode("Record", <<KeywordTypeNode("string"),
                                                KeywordTypeNode("never")>>),
          g |-> g]
    ELSE With(generateMembers(rt, simplifier, g, node,
                              sortEntries(node.t.properties), 1, fuel),
              LAMBDA r : [out |-> TypeLiteralNode(r.out), g |-> r.g])

\* the dispatch of generateType on the type of the node
generateByType(rt, simplifier, g1, node, fuel) ==
  LET type == node.t.type IN
    IF node = Diverged THEN [out |-> NoOutput, g |-> [g1 EXCEPT !.cut = TRUE]]
    ELSE IF type \in PrimitiveTypes
      THEN [out |-> generatePrimitiveType(type), g |-> g1]
    ELSE IF type \in {"any", "unknown"}
      THEN [out |-> KeywordTypeNode("unknown"), g |-> g1]
    ELSE IF type = "array"
      THEN With(generateType(rt, simplifier, g1,
                             GraphNode(rt, Down(node.base, ItemsStep)), fuel - 1),
                LAMBDA e : [out |-> ArrayTypeNode(e.out), g |-> e.g])
    ELSE IF type = "const"
      THEN [out |-> LiteralTypeNode(node.t.value), g |-> g1]
    ELSE IF type = "enum"
      THEN [out |-> UnionTypeNode([i \in 1..Len(node.t.values) |->
                                     LiteralTypeNode(node.t.values[i])]),
            g |-> g1]
    ELSE IF type = "object"
      THEN generateObjectType(rt, simplifier, g1, node, fuel - 1)
    ELSE IF type = "record"
      THEN With(generateType(rt, simplifier, g1,
                             GraphNode(rt, Down(node.base, ValueStep)), fuel - 1),
                LAMBDA v : [out |-> TypeReferenceNode("Record",
                                      <<KeywordTypeNode("string"), v.out>>),
                            g |-> v.g])
    ELSE IF type = "reference"
      THEN createTypeReference(g1, node.t.name, <<>>)
    ELSE IF type = "union"
      THEN With(generateTypes(rt, simplifier, g1, MembersOfNode(rt, node), fuel - 1),
                LAMBDA u : [out |-> UnionTypeNode(u.out), g |-> u.g])
    ELSE [out |-> NoOutput, g |-> [g1 EXCEPT !.x = TRUE]]

\* generateType: the simplifier is [mode, tagType]; the node is pushed on
\* #stack for the time its type is generated
generateType(rt, simplifier, g, given, fuel) ==
  IF fuel = 0 THEN [out |-> NoOutput, g |-> [g EXCEPT !.cut = TRUE]]
  ELSE
    With(IF ~ (given.at # NoAddr /\ given.at \in Range(g.stack))
           THEN simplifyType(rt, simplifier.mode, simplifier.tagType, given, fuel)
           ELSE given,
         LAMBDA node :
           With(generateByType(rt, simplifier,
                               [g EXCEPT !.stack = Append(@, node.at)], node, fuel),
                LAMBDA r :
                  IF Failed(r.g) THEN r
                  ELSE [out |-> r.out,
                        g |-> [r.g EXCEPT !.stack = SubSeq(@, 1, Len(@) - 1)]]))

\* generateTypeDefinition(name, definition), the definition's type being
\* the graph node at `addr`
generateTypeDefinition(rt, simplifier, g, name, addr, fuel) ==
  With(generateType(rt, simplifier, g, GraphNode(rt, addr), fuel),
       LAMBDA r : [out |-> [name |-> name, type |-> r.out], g |-> r.g])

\* ------------------------------------------- simplifyUnionType, checked
\* The member types the unions of SpecUnion are built from: same-typed
\* members at different locations (ids), and unions nested three deep.

MaxUnionLen == 3

UnionLeaves ==
  { TString("/p"), TString("/q"), TPrim("number", "/n"), TConst("s:x", "/c"),
    TArray(TString("/a/items"), "/a"), TArray(TString("/b/items"), "/b") }

UnionNested1 ==
  { TUnion(<<>>, "/u0"),
    TUnion(<<TString("/u1/0"), TPrim("number", "/u1/1")>>, "/u1"),
    TUnion(<<TRef("A", "/u2/0"), TString("/u2/1"), TRef("A", "/u2/2")>>, "/u2") }

UnionNested2 ==
  { TUnion(<<TPrim("number", "/v/0"), u>>, "/v") : u \in UnionNested1 }

UnionNested3 ==
  { TUnion(<<u, TString("/w/1")>>, "/w") : u \in UnionNested2 }

UnionMembers == UnionLeaves \cup UnionNested1 \cup UnionNested2 \cup UnionNested3

BuildIdle ==
  /\ resourceSchema = None
  /\ thisProblems = None
  /\ optionsProblems = <<>>
  /\ warnCalls = <<>>
  /\ relevantKeys = RelevantKeys
  /\ root = None
  /\ mode = None
  /\ referencedNames = {}
  /\ statements = <<>>
  /\ definitions = <<>>
  /\ thisPass = 0
  /\ cursor = 0

UnionIdle ==
  /\ unionInput = None
  /\ unionResult = None
  /\ unionAgain = None

InitUnion ==
  /\ pc = "union"
  /\ unionInput \in {TUnion(ms, "/") : ms \in SeqsOf(UnionMembers, 0, MaxUnionLen)}
  /\ unionResult = None
  /\ unionAgain = None
  /\ MergeIdle
  /\ BuildIdle
  /\ LibIdle

\* simplifyUnionType(unionInput)
Simplify ==
  /\ pc = "union"
  /\ unionResult' = simplifyUnionType(unionInput)
  /\ pc' = "once"
  /\ UNCHANGED <<unionInput, unionAgain, mergeVars, libVars, buildVars, emitVars>>

\* the members of a simplified type, read back as a member list
MembersOf(t) == IF t.type = "union" THEN t.items ELSE <<t>>

\* simplifyUnionType applied to the members of the previous result
SimplifyAgain ==
  /\ pc = "once"
  /\ unionAgain' = simplifyUnionType(TUnion(MembersOf(unionResult), unionInput.id))
  /\ pc' = "twice"
  /\ UNCHANGED <<unionInput, unionResult, mergeVars, libVars, buildVars, emitVars>>

NextUnion == Simplify \/ SimplifyAgain

SpecUnion == InitUnion /\ [][NextUnion]_vars

\* The members of a list of types with every nested union replaced by its
\* members, depth first and left to right.
RECURSIVE Flatten(_)
Flatten(xs) ==
  IF xs = <<>> THEN <<>>
  ELSE (IF Head(xs).type = "union" THEN Flatten(Head(xs).items) ELSE <<Head(xs)>>)
       \o Flatten(Tail(xs))

\* The members of xs that no earlier member of xs is isSameType-equal to.
FirstOccurrences(xs) ==
  LET idx == {i \in 1..Len(xs) : ~ \E j \in 1..(i - 1) : isSameType(xs[j], xs[i])}
      at == [k \in 1..Cardinality(idx) |->
               CHOOSE i \in idx : Cardinality({j \in idx : j < i}) = k - 1]
  IN [k \in 1..Cardinality(idx) |-> xs[at[k]]]

NoSameTypePair(xs) ==
  \A i \in 1..Len(xs) : \A j \in 1..Len(xs) : i # j => ~ isSameType(xs[i], xs[j])

\* C3: simplifyUnionType flattens nested unions to any depth, drops every
\* member that is isSameType-equal to an earlier one, keeps the others in
\* first-occurrence order, and returns unknown for 0 members, the member
\* itself for 1 and a union of the members for 2 or more.
C3_SimplifyUnionResult ==
  pc \in {"once", "twice"} =>
    LET firsts == FirstOccurrences(Flatten(unionInput.items)) IN
      /\ Len(firsts) = 0 => unionResult = [type |-> "unknown", id |-> unionInput.id]
      /\ Len(firsts) = 1 => unionResult = firsts[1]
      /\ Len(firsts) >= 2 =>
           /\ unionResult.type = "union"
           /\ unionResult.items = firsts
           /\ unionResult.id = unionInput.id

\* a union nested two deep with a repeated member type, simplified to a union
C3_Witness ==
  /\ pc = "once"
  /\ unionResult.type = "union"
  /\ \E i \in 1..Len(unionInput.items) :
       /\ unionInput.items[i].type = "union"
       /\ \E j \in 1..Len(unionInput.items[i].items) :
            unionInput.items[i].items[j].type = "union"
  /\ Len(unionResult.items) < Len(Flatten(unionInput.items))

\* C4: simplifying the result of simplifyUnion again yields the same type,
\* and the result never holds two members equal under isSameType.
C4_SimplifyUnionIdempotent ==
  /\ pc \in {"once", "twice"} => NoSameTypePair(MembersOf(unionResult))
  /\ pc = "twice" => unionAgain = unionResult

\* the second simplification of a union result whose input repeated a type
C4_Witness ==
  /\ pc = "twice"
  /\ unionResult.type = "union"
  /\ ~ NoSameTypePair(Flatten(unionInput.items))

\* ------------------------------------------------- mergeObjects, checked

MaxObjects == 3

\* schema fragments as the allOf merge sees them: a scalar field, a field
\* merged as an array, and a second scalar field
FragmentSet ==
  { Restrict(f, D) :
      f \in [{"minLength", "title", "required"} -> {1, 2}],
      D \in SUBSET {"minLength", "title", "required"} }

\* the fragment that picks value number f[k] for each of its keys
FragmentOf(f) ==
  [k \in DOMAIN f |->
     IF k = "minLength" THEN (IF f[k] = 1 THEN "n:1" ELSE "n:5")
     ELSE IF k = "title" THEN (IF f[k] = 1 THEN "s:a" ELSE "s:b")
     ELSE (IF f[k] = 1 THEN <<"A">> ELSE <<"B", "A">>)]

Fragments == {FragmentOf(f) : f \in FragmentSet}

InitMerge ==
  /\ pc = "merge"
  /\ objects \in SeqsOf(Fragments, 1, MaxObjects)
  /\ mergeOptions = MergeAllOfOptions
  /\ merged = None
  /\ UnionIdle
  /\ BuildIdle
  /\ LibIdle

\* #mergeSchemas: mergeObjects(objects, options)
Merge ==
  /\ pc = "merge"
  /\ merged' = mergeObjects(objects, mergeOptions)
  /\ pc' = "merged"
  /\ UNCHANGED <<objects, mergeOptions, unionVars, libVars, buildVars, emitVars>>

NextMerge == Merge

SpecMerge == InitMerge /\ [][NextMerge]_vars

ScalarMergeKeys == {"minLength", "title"}

\* the value of the first object of the list that carries `key`
FirstValue(objs, key) ==
  objs[CHOOSE i \in 1..Len(objs) :
         /\ key \in DOMAIN objs[i]
         /\ \A j \in 1..(i - 1) : key \notin DOMAIN objs[j]][key]

Disagree(objs, key) ==
  \E i, j \in 1..Len(objs) :
    /\ key \in DOMAIN objs[i]
    /\ key \in DOMAIN objs[j]
    /\ objs[i][key] # objs[j][key]

\* C1: a scalar field whose values disagree across the merged fragments is
\* reported as a conflict and the merged result keeps the value of the
\* first fragment that carries it; merging {minLength: 1} and {minLength: 5}
\* reports exactly one conflict, for minLength, and the merged minLength is 1.
C1_FirstValueWins ==
  pc = "merged" =>
    /\ \A key \in ScalarMergeKeys :
         (\E i \in 1..Len(objects) : key \in DOMAIN objects[i]) =>
           /\ merged.value[key] = FirstValue(objects, key)
           /\ Disagree(objects, key) => key \in Range(merged.conflicts)
    /\ objects = <<[minLength |-> "n:1"], [minLength |-> "n:5"]>> =>
         /\ merged.conflicts = <<"minLength">>
         /\ merged.value["minLength"] = "n:1"

\* ------------------------------------------------------ isSameType, checked
\* The types isSameType is handed: every kind of the type model, the same
\* structure at different locations, with different documentation and
\* flags, and structures that differ in a single place.

PropertyOf(type, doc, isAttribute, readOnly) ==
  [type |-> type, documentation |-> doc,
   isAttribute |-> isAttribute, readOnly |-> readOnly]

PlainProperty(type) == PropertyOf(type, [description |-> "s:b"], FALSE, FALSE)

SameObjects ==
  << TObject(<<<<"A", PlainProperty(TString("/o/A"))>>,
              <<"B", PlainProperty(TPrim("number", "/o/B"))>>>>, <<"A">>, "/o"),
    TObject(<<<<"A", PropertyOf(TString("/d/A"), [description |-> "s:a"], TRUE, TRUE)>>,
              <<"B", PropertyOf(TPrim("number", "/d/B"), [description |-> "s:a"], FALSE, TRUE)>>>>,
            <<"A">>, "/d"),
    TObject(<<<<"B", PlainProperty(TPrim("number", "/o/B"))>>,
              <<"A", PlainProperty(TString("/o/A"))>>>>, <<"A">>, "/o"),
    TObject(<<<<"A", PlainProperty(TString("/o/A"))>>,
              <<"B", PlainProperty(TPrim("number", "/o/B"))>>>>, <<"B">>, "/o"),
    TObject(<<<<"A", PlainProperty(TString("/o/A"))>>,
              <<"B", PlainProperty(TPrim("number", "/o/B"))>>>>, <<"A", "B">>, "/o"),
    TObject(<<<<"A", PlainProperty(TString("/o/A"))>>,
              <<"B", PlainProperty(TPrim("number", "/o/B"))>>>>, <<"B", "A">>, "/o"),
    TObject(<<<<"A", PlainProperty(TString("/o/A"))>>,
              <<"B", PlainProperty(TString("/o/B"))>>>>, <<"A">>, "/o"),
    TObject(<<<<"A", PlainProperty(TString("/o/A"))>>,
              <<"C", PlainProperty(TPrim("number", "/o/C"))>>>>, <<"A">>, "/o"),
    TObject(<<<<"A", PlainProperty(TString("/o/A"))>>>>, <<"A">>, "/o"),
    TObject(<<>>, <<>>, "/e") >>

SameLeaves ==
  << TString("/p"), TString("/q"), TPrim("number", "/n"), TPrim("integer", "/i"),
    TPrim("boolean", "/b"), TPrim("null", "/z"), TPrim("any", "/y"),
    TPrim("unknown", "/x"), TPrim("unknown", "/w"),
    TConst("s:a", "/c"), TConst("s:a", "/c2"), TConst("s:b", "/c"), TConst("n:1", "/c"),
    TEnum(<<"s:a", "s:b">>, "/e"), TEnum(<<"s:a", "s:b">>, "/e2"),
    TEnum(<<"s:b", "s:a">>, "/e"), TEnum(<<"s:a">>, "/e"), TEnum(<<>>, "/e"),
    TRef("A", "/r"), TRef("A", "/r2"), TRef("B", "/r") >>

SameContainers ==
  << TArray(TString("/a/items"), "/a"), TArray(TString("/a2/items"), "/a2"),
    TArray(TPrim("number", "/a/items"), "/a"),
    TArray(TArray(TString("/a/items/items"), "/a/items"), "/a"),
    TRecord(TString("/m/patternProperties"), "/m"),
    TRecord(TString("/m2/patternProperties"), "/m2"),
    TRecord(TPrim("number", "/m/patternProperties"), "/m"),
    TUnion(<<TString("/u"), TPrim("number", "/u")>>, "/u"),
    TUnion(<<TString("/u2"), TPrim("number", "/u2")>>, "/u2"),
    TUnion(<<TPrim("number", "/u"), TString("/u")>>, "/u"),
    TUnion(<<TString("/u"), TPrim("number", "/u"), TRef("A", "/u")>>, "/u"),
    TUnion(<<TString("/u"), TRef("A", "/u")>>, "/u"),
    TObject(<<<<"P", PlainProperty(
                       TObject(<<<<"A", PlainProperty(TString("/n/P/A"))>>>>,
                               <<>>, "/n/P"))>>>>, <<>>, "/n"),
    TObject(<<<<"P", PropertyOf(
                       TObject(<<<<"A", PropertyOf(TString("/k/P/A"), [description |-> "s:a"],
                                                   TRUE, FALSE)>>>>,
                               <<>>, "/k/P"), [description |-> "s:a"], TRUE, FALSE)>>>>,
            <<>>, "/k"),
    TObject(<<<<"P", PlainProperty(
                       TObject(<<<<"A", PlainProperty(TPrim("number", "/n/P/A"))>>>>,
                               <<>>, "/n/P"))>>>>, <<>>, "/n") >>

SameTypes == SameLeaves \o SameObjects \o SameContainers

InitSame ==
  /\ pc = "same"
  /\ \E i \in 1..Len(SameTypes) : typeA = SameTypes[i]
  /\ \E i \in 1..Len(SameTypes) : typeB = SameTypes[i]
  /\ sameResult = None
  /\ TemplateIdle
  /\ CommentIdle
  /\ ReporterIdle
  /\ MergeIdle
  /\ UnionIdle
  /\ BuildIdle

\* isSameType(typeA, typeB)
Compare ==
  /\ pc = "same"
  /\ sameResult' = isSameType(typeA, typeB)
  /\ pc' = "compared"
  /\ UNCHANGED <<typeA, typeB, templateVars, commentVars, reporterVars,
                 mergeVars, unionVars, buildVars, emitVars>>

NextSame == Compare

SpecSame == InitSame /\ [][NextSame]_vars

\* What is left of a Type once the locations, the documentation and the
\* flags are taken away: the tag and, under it, what the kind is made of,
\* in order.
RECURSIVE Structure(_)
Structure(t) ==
  IF t.type = "array" THEN <<"array", Structure(t.items.type)>>
  ELSE IF t.type = "object"
    THEN <<"object",
           [i \in 1..Len(t.properties) |->
              <<t.properties[i][1], Structure(t.properties[i][2].type)>>],
           t.required>>
  ELSE IF t.type = "record" THEN <<"record", Structure(t.value)>>
  ELSE IF t.type = "enum" THEN <<"enum", t.values>>
  ELSE IF t.type = "const" THEN <<"const", t.value>>
  ELSE IF t.type = "reference" THEN <<"reference", t.name>>
  ELSE IF t.type = "union"
    THEN <<"union", [i \in 1..Len(t.items) |-> Structure(t.items[i])]>>
  ELSE <<t.type>>

\* C14: isSameType(a, b) is true exactly when a and b have the same
\* structure, order included: arrays by element type, objects by their
\* property name/type pairs in order and their required list, records by
\* value type, enums and consts by their values in position, references by
\* name, unions member by member, every other kind by its tag; locations,
\* documentation and flags do not matter.
C14_SameTypeIsStructural ==
  pc = "compared" => (sameResult <=> Structure(typeA) = Structure(typeB))

\* two objects that differ in documentation, flags and locations only,
\* found to be the same type
C14_Witness ==
  /\ pc = "compared"
  /\ sameResult = TRUE
  /\ typeA.type = "object"
  /\ typeA # typeB
  /\ \E i \in 1..Len(typeA.properties) :
       typeA.properties[i][2].isAttribute # typeB.properties[i][2].isAttribute

\* ------------------------------------------------------- TemplateBuilder
\* src/lib/builder.ts.  The template and its sections are functions from
\* their own keys to values; a definition is a record.

\* what every object inherits from Object.prototype, as far as the names of
\* the model go
ObjectPrototypeKeys == {"constructor", "toString"}

\* key in obj
In(key, obj) == key \in DOMAIN obj \/ key \in ObjectPrototypeKeys

\* obj[key] = value
PutKey(obj, key, value) ==
  [k \in DOMAIN obj \cup {key} |-> IF k = key THEN value ELSE obj[k]]

\* #set(keys, value) from `obj` down: the object after the call and whether
\* DuplicateTemplateEntityError was thrown.  A parent the loop creates is
\* stored before the leaf is looked at.  The keys that lead to a parent are
\* own keys or absent.
RECURSIVE set(_, _, _)
set(obj, keys, value) ==
  IF Len(keys) = 1
    THEN IF In(keys[1], obj)
           THEN [obj |-> obj, threw |-> TRUE]
           ELSE [obj |-> PutKey(obj, keys[1], value), threw |-> FALSE]
  ELSE With(set(IF In(keys[1], obj) THEN obj[keys[1]] ELSE EmptyObject,
                Tail(keys), value),
            LAMBDA r : [obj |-> PutKey(obj, keys[1], r.obj), threw |-> r.threw])

\* #addSection(sectionName, name, definition)
addSection(obj, sectionName, name, definition) ==
  set(obj, <<sectionName, name>>, definition)

\* addMapping(name, topLevel, secondLevel, value): an argument is a string
\* (kind "string"), an object (kind "object") or left out (kind "undefined")
addMapping(obj, name, topLevel, secondLevel, value) ==
  IF topLevel.kind = "object"
    THEN addSection(obj, "Mappings", name, topLevel.o)
  ELSE IF secondLevel.kind = "object"
    THEN set(obj, <<"Mappings", name, topLevel.v>>, secondLevel.o)
  ELSE set(obj, <<"Mappings", name, topLevel.v, secondLevel.v>>, value)

\* the keys an addMapping call writes at
addMappingKeys(name, topLevel, secondLevel) ==
  IF topLevel.kind = "object" THEN <<"Mappings", name>>
  ELSE IF secondLevel.kind = "object" THEN <<"Mappings", name, topLevel.v>>
  ELSE <<"Mappings", name, topLevel.v, secondLevel.v>>

\* the value an addMapping call writes there
addMappingValue(topLevel, secondLevel, value) ==
  IF topLevel.kind = "object" THEN topLevel.o
  ELSE IF secondLevel.kind = "object" THEN secondLevel.o
  ELSE value

\* ------------------------------------------------ TemplateBuilder, checked

MaxAdds == 3

EntityNames == {"A", "constructor"}

Definitions == {[Definition |-> "s:a"], [Definition |-> "s:b"]}

StringArg(v) == [kind |-> "string", v |-> v]
ObjectArg(o) == [kind |-> "object", o |-> o]
NoArg == [kind |-> "undefined"]

\* the argument lists of addMapping: a whole mapping, a top-level key with
\* its second level, a key path with its value
MappingCalls ==
  { [name |-> n, topLevel |-> ObjectArg("T" :> ("S" :> d)), secondLevel |-> NoArg,
     value |-> d] : n \in EntityNames, d \in Definitions }
    \cup { [name |-> "A", topLevel |-> StringArg(t), secondLevel |-> ObjectArg("S" :> d),
            value |-> d] : t \in {"T"} \cup ObjectPrototypeKeys, d \in Definitions }
    \cup { [name |-> "A", topLevel |-> StringArg("T"), secondLevel |-> StringArg(k),
            value |-> d] : k \in {"S"} \cup ObjectPrototypeKeys, d \in Definitions }

\* the state after `new TemplateBuilder()`
InitTemplate ==
  /\ pc = "template"
  /\ template = [Resources |-> EmptyObject]
  /\ templateBefore = [Resources |-> EmptyObject]
  /\ lastAdd = [keys |-> <<>>, value |-> <<>>, threw |-> FALSE, count |-> 0]
  /\ SameIdle
  /\ CommentIdle
  /\ ReporterIdle
  /\ MergeIdle
  /\ UnionIdle
  /\ BuildIdle

\* what an add call leaves behind: the template, and in lastAdd the keys
\* the call wrote at, the value it was to write there, whether it threw and
\* the number of calls so far
AfterAdd(keys, value, r) ==
  [template |-> r.obj,
   lastAdd |-> [keys |-> keys, value |-> <<value>>, threw |-> r.threw,
                count |-> lastAdd.count + 1]]

CanAdd == pc \in {"template", "added"} /\ lastAdd.count < MaxAdds

\* builder.addCondition(name, definition)
AddCondition ==
  /\ CanAdd
  /\ \E name \in EntityNames, definition \in Definitions :
       \E after \in {AfterAdd(<<"Conditions", name>>, definition,
                              addSection(template, "Conditions", name, definition))} :
         template' = after.template /\ lastAdd' = after.lastAdd
  /\ templateBefore' = template
  /\ pc' = "added"
  /\ UNCHANGED <<sameVars, commentVars, reporterVars,
                 mergeVars, unionVars, buildVars, emitVars>>

\* builder.addMapping(name, topLevel, secondLevel, value)
AddMapping ==
  /\ CanAdd
  /\ \E call \in MappingCalls :
       \E after \in {AfterAdd(addMappingKeys(call.name, call.topLevel, call.secondLevel),
                              addMappingValue(call.topLevel, call.secondLevel, call.value),
                              addMapping(template, call.name, call.topLevel,
                                         call.secondLevel, call.value))} :
         template' = after.template /\ lastAdd' = after.lastAdd
  /\ templateBefore' = template
  /\ pc' = "added"
  /\ UNCHANGED <<sameVars, commentVars, reporterVars,
                 mergeVars, unionVars, buildVars, emitVars>>

\* builder.addOutput(name, definition)
AddOutput ==
  /\ CanAdd
  /\ \E name \in EntityNames, definition \in Definitions :
       \E after \in {AfterAdd(<<"Outputs", name>>, definition,
                              addSection(template, "Outputs", name, definition))} :
         template' = after.template /\ lastAdd' = after.lastAdd
  /\ templateBefore' = template
  /\ pc' = "added"
  /\ UNCHANGED <<sameVars, commentVars, reporterVars,
                 mergeVars, unionVars, buildVars, emitVars>>

\* builder.addParameter(name, definition)
AddParameter ==
  /\ CanAdd
  /\ \E name \in EntityNames, definition \in Definitions :
       \E after \in {AfterAdd(<<"Parameters", name>>, definition,
                              addSection(template, "Parameters", name, definition))} :
         template' = after.template /\ lastAdd' = after.lastAdd
  /\ templateBefore' = template
  /\ pc' = "added"
  /\ UNCHANGED <<sameVars, commentVars, reporterVars,
                 mergeVars, unionVars, buildVars, emitVars>>

\* builder.addResource(name, type, properties)
AddResource ==
  /\ CanAdd
  /\ \E name \in EntityNames, definition \in Definitions :
       \E after \in {AfterAdd(<<"Resources", name>>,
                              [Type |-> "s:a", Properties |-> definition],
                              addSection(template, "Resources", name,
                                         [Type |-> "s:a", Properties |-> definition]))} :
         template' = after.template /\ lastAdd' = after.lastAdd
  /\ templateBefore' = template
  /\ pc' = "added"
  /\ UNCHANGED <<sameVars, commentVars, reporterVars,
                 mergeVars, unionVars, buildVars, emitVars>>

\* builder.addRule(name, definition)
AddRule ==
  /\ CanAdd
  /\ \E name \in EntityNames, definition \in Definitions :
       \E after \in {AfterAdd(<<"Rules", name>>, definition,
                              addSection(template, "Rules", name, definition))} :
         template' = after.template /\ lastAdd' = after.lastAdd
  /\ templateBefore' = template
  /\ pc' = "added"
  /\ UNCHANGED <<sameVars, commentVars, reporterVars,
                 mergeVars, unionVars, buildVars, emitVars>>

NextTemplate ==
  \/ AddCondition
  \/ AddMapping
  \/ AddOutput
  \/ AddParameter
  \/ AddResource
  \/ AddRule

SpecTemplate == InitTemplate /\ [][NextTemplate]_vars

\* the object holds an entry of its own at the end of the key path
RECURSIVE HoldsEntry(_, _)
HoldsEntry(obj, keys) ==
  /\ keys[1] \in DOMAIN obj
  /\ Len(keys) = 1 \/ HoldsEntry(obj[keys[1]], Tail(keys))

\* C17: an add call of the TemplateBuilder throws DuplicateTemplateEntityError
\* if and only if the section (for the keyed addMapping forms, the mapping
\* key path) already holds an entry under that name; when it throws, the
\* template is as it was before the call.
C17_DuplicateIffHeld ==
  pc = "added" =>
    /\ lastAdd.threw <=> HoldsEntry(templateBefore, lastAdd.keys)
    /\ lastAdd.threw => template = templateBefore

TemplateSections ==
  {"Conditions", "Mappings", "Outputs", "Parameters", "Resources", "Rules"}

\* the names a section of the template holds
SectionNames(t, section) == IF section \in DOMAIN t THEN DOMAIN t[section] ELSE {}

\* the section holds in `after` every name it held in `before`, mapped to
\* what it was mapped to, except for `but`
SectionKeeps(before, after, section, but) ==
  \A name \in SectionNames(before, section) \ but :
    /\ name \in SectionNames(after, section)
    /\ after[section][name] = before[section][name]

\* `new` is `old` with the value added at the end of the key path, and
\* nothing that `old` held removed or replaced
RECURSIVE AddedAt(_, _, _, _)
AddedAt(old, new, keys, value) ==
  /\ DOMAIN new = DOMAIN old \cup {keys[1]}
  /\ \A k \in DOMAIN old \ {keys[1]} : new[k] = old[k]
  /\ IF Len(keys) = 1
       THEN keys[1] \notin DOMAIN old /\ new[keys[1]] = value
       ELSE AddedAt(IF keys[1] \in DOMAIN old THEN old[keys[1]] ELSE EmptyObject,
                    new[keys[1]], Tail(keys), value)

\* what the last add call did to the sections: nothing when it threw; when
\* it returned, it added its name with its definition to its section (for
\* the keyed addMapping forms, its value at its key path under its name)
LastAddKept ==
  /\ \A section \in TemplateSections \ (IF lastAdd.threw THEN {} ELSE {lastAdd.keys[1]}) :
       /\ SectionNames(template, section) = SectionNames(templateBefore, section)
       /\ SectionKeeps(templateBefore, template, section, {})
  /\ ~ lastAdd.threw =>
       /\ SectionNames(template, lastAdd.keys[1])
            = SectionNames(templateBefore, lastAdd.keys[1]) \cup {lastAdd.keys[2]}
       /\ SectionKeeps(templateBefore, template, lastAdd.keys[1], {lastAdd.keys[2]})
       /\ AddedAt(templateBefore, template, lastAdd.keys, lastAdd.value[1])

\* C30: after any sequence of add calls each section of the template holds
\* exactly the names whose add call returned normally, each mapped to the
\* definition passed in that call: a call that throws adds no name, a call
\* that returns adds its own and removes or replaces no earlier entry, and
\* no call changes a section other than its own.
C30_SectionsHoldWhatWasAdded ==
  pc = "added" => LastAddKept

\* the same, for the calls whose last key Object.prototype does not carry
SectionsHoldWhatWasAddedOwnKeys ==
  (pc = "added" /\ lastAdd.keys[Len(lastAdd.keys)] \notin ObjectPrototypeKeys)
    => LastAddKept

\* ------------------------------------------ CodeGenerator.withDocumentation
\* A text is the sequence of its characters; "zwj" is U+200D.

\* text.split("\n")
RECURSIVE Split(_)
Split(text) ==
  IF \A i \in 1..Len(text) : text[i] # "\n" THEN <<text>>
  ELSE With(CHOOSE i \in 1..Len(text) :
              text[i] = "\n" /\ \A j \in 1..(i - 1) : text[j] # "\n",
            LAMBDA i : <<SubSeq(text, 1, i - 1)>>
                         \o Split(SubSeq(text, i + 1, Len(text))))

\* documentation.flatMap((x) => x.split("\n"))
RECURSIVE SplitAll(_)
SplitAll(texts) ==
  IF texts = <<>> THEN <<>> ELSE Split(Head(texts)) \o SplitAll(Tail(texts))

\* lines.join(separator)
RECURSIVE JoinLines(_, _)
JoinLines(lines, separator) ==
  IF lines = <<>> THEN <<>>
  ELSE IF Len(lines) = 1 THEN lines[1]
  ELSE lines[1] \o separator \o JoinLines(Tail(lines), separator)

\* text starts with `pattern`
StartsWith(text, pattern) ==
  Len(text) >= Len(pattern) /\ SubSeq(text, 1, Len(pattern)) = pattern

\* mutant: the text is left as it is
replaceNothing(text, pattern, replacement) == text

\* text.replaceAll(pattern, replacement): the matches are taken from left to
\* right and do not overlap
RECURSIVE replaceAll(_, _, _)
replaceAll(text, pattern, replacement) ==
  IF text = <<>> THEN <<>>
  ELSE IF StartsWith(text, pattern)
    THEN replacement \o replaceAll(SubSeq(text, Len(pattern) + 1, Len(text)),
                                   pattern, replacement)
  ELSE <<Head(text)>> \o replaceAll(Tail(text), pattern, replacement)

\* withDocumentation(node, documentation): whether a comment is attached to
\* the node and the text of the comment
withDocumentation(doc, disabled) ==
  IF doc.kind = "undefined" \/ disabled THEN [emitted |-> FALSE, body |-> <<>>]
  ELSE IF doc.kind = "string" /\ Len(doc.text) = 0
    THEN [emitted |-> FALSE, body |-> <<>>]
  ELSE IF doc.kind = "array" /\ Len(doc.items) = 0
    THEN [emitted |-> FALSE, body |-> <<>>]
  ELSE With(IF doc.kind = "array" THEN SplitAll(doc.items) ELSE Split(doc.text),
            LAMBDA lines :
              [emitted |-> TRUE,
               body |-> replaceAll(JoinLines(<<<<"*">>>> \o lines, <<"\n", " ", "*", " ">>),
                                   <<"*", "/">>, <<"*", "zwj", "/">>)
                          \o <<"\n", " ">>])

\* --------------------------------------------- withDocumentation, checked

MaxDocLen == 4

DocCharacters == {"*", "/", "a", "\n"}

\* what withDocumentation is handed: nothing, a text, or a list of texts
Documentations ==
  {[kind |-> "undefined"]}
    \cup {[kind |-> "string", text |-> t] : t \in SeqsOf(DocCharacters, 0, MaxDocLen)}
    \cup {[kind |-> "array", items |-> ts] :
            ts \in SeqsOf(SeqsOf(DocCharacters, 0, MaxDocLen - 2), 0, 2)}

InitComment ==
  /\ pc = "comment"
  /\ docText \in Documentations
  /\ noDocumentation \in BOOLEAN
  /\ comment = [emitted |-> FALSE, body |-> <<>>]
  /\ SameIdle
  /\ TemplateIdle
  /\ ReporterIdle
  /\ MergeIdle
  /\ UnionIdle
  /\ BuildIdle

\* generator.withDocumentation(node, docText)
WithDocumentation ==
  /\ pc = "comment"
  /\ comment' = withDocumentation(docText, noDocumentation)
  /\ pc' = "documented"
  /\ UNCHANGED <<docText, noDocumentation, sameVars, templateVars, reporterVars,
                 mergeVars, unionVars, buildVars, emitVars>>

NextComment == WithDocumentation

SpecComment == InitComment /\ [][NextComment]_vars

\* `pattern` occurs in `text`
Occurs(pattern, text) ==
  \E i \in 1..Len(text) : StartsWith(SubSeq(text, i, Len(text)), pattern)

\* the texts of a documentation, as handed in
TextsOf(doc) ==
  IF doc.kind = "string" THEN <<doc.text>>
  ELSE IF doc.kind = "array" THEN doc.items
  ELSE <<>>

\* C18: whatever description or annotation text the renderer is handed, the
\* body of the comment it emits holds no "*/": the text cannot close the
\* comment early.
C18_NoCommentTerminator ==
  pc = "documented" => ~ Occurs(<<"*", "/">>, comment.body)

\* a comment emitted for a text that holds "*/"
C18_Witness ==
  /\ pc = "documented"
  /\ comment.emitted
  /\ \E i \in 1..Len(TextsOf(docText)) : Occurs(<<"*", "/">>, TextsOf(docText)[i])
  /\ Occurs(<<"*", "zwj", "/">>, comment.body)

\* ------------------------------------------------- ConsoleProblemReporter
\* A message is the sequence of its words, a word being what stands between
\* two blanks.

\* format(`${chalk.red|yellow(severity)} ${chalk.gray(location)}`, ...args)
\* for a location without blanks and without "%", and arguments that are
\* strings: the arguments follow the prefix, a blank before each
format(severity, location, args) == <<severity, location>> \o Concat(args)

\* mutant: the message is logged whether or not it was reported before
reportAlways(seen, log, message) ==
  [reported |-> seen \cup {message}, logged |-> Append(log, message)]

\* #report(message): #reported and the console.error calls after it
report(seen, log, message) ==
  IF message \notin seen
    THEN [reported |-> seen \cup {message}, logged |-> Append(log, message)]
    ELSE [reported |-> seen, logged |-> log]

\* ---------------------------------------- ConsoleProblemReporter, checked

MaxReports == 4

ReportLocations == {"/a", "/b"}

\* no argument, one argument of two words, two arguments of one word
ReportArguments == {<<>>, <<<<"x", "y">>>>, <<<<"x">>, <<"y">>>>}

\* the state after `new ConsoleProblemReporter()`
InitReporter ==
  /\ pc = "reporter"
  /\ reported = {}
  /\ logged = <<>>
  /\ reportCalls = <<>>
  /\ SameIdle
  /\ TemplateIdle
  /\ CommentIdle
  /\ MergeIdle
  /\ UnionIdle
  /\ BuildIdle

\* reporter.error(location, ...args)
ReportError ==
  /\ pc = "reporter"
  /\ Len(reportCalls) < MaxReports
  /\ \E location \in ReportLocations, args \in ReportArguments :
       \E message \in {format("error", location, args)} :
         /\ reported' = report(reported, logged, message).reported
         /\ logged' = report(reported, logged, message).logged
         /\ reportCalls' = Append(reportCalls, message)
  /\ UNCHANGED <<pc, sameVars, templateVars, commentVars,
                 mergeVars, unionVars, buildVars, emitVars>>

\* reporter.warn(location, ...args)
ReportWarn ==
  /\ pc = "reporter"
  /\ Len(reportCalls) < MaxReports
  /\ \E location \in ReportLocations, args \in ReportArguments :
       \E message \in {format("warn", location, args)} :
         /\ reported' = report(reported, logged, message).reported
         /\ logged' = report(reported, logged, message).logged
         /\ reportCalls' = Append(reportCalls, message)
  /\ UNCHANGED <<pc, sameVars, templateVars, commentVars,
                 mergeVars, unionVars, buildVars, emitVars>>

NextReporter == ReportError \/ ReportWarn

SpecReporter == InitReporter /\ [][NextReporter]_vars

\* C20: over any sequence of error and warn calls on the console reporter,
\* each distinct formatted message is logged exactly once, at its first
\* occurrence; a later call with the same message logs nothing.
C20_LoggedOnceAtFirst ==
  /\ [](pc = "reporter" => logged = Unique(reportCalls))
  /\ [][pc = "reporter" =>
          logged' = IF \E i \in 1..Len(reportCalls) :
                         reportCalls[i] = reportCalls'[Len(reportCalls')]
                      THEN logged
                      ELSE Append(logged, reportCalls'[Len(reportCalls')])]_vars

\* a message was produced a second time, by a call with other arguments
\* than the first, and an error and a warning for one location were logged
C20_Witness ==
  /\ pc = "reporter"
  /\ Len(logged) < Len(reportCalls)
  /\ \E i \in 1..Len(logged) : \E j \in 1..Len(logged) :
       /\ logged[i][1] = "error"
       /\ logged[j][1] = "warn"
       /\ Tail(logged[i]) = Tail(logged[j])

\* ---------------------------------------------- build and generate, checked

MaxPaths == 3

StringSchema == [type |-> "string"]
IntegerSchema == [type |-> "integer"]
RefTo(name) == ("$ref" :> [inDoc |-> TRUE, parts |-> <<"definitions", name>>])
ObjectOf(properties) == [type |-> "object", properties |-> properties]
ArrayOf(items) == [type |-> "array", items |-> items]
PairAB == ObjectOf(<<<<"A", StringSchema>>, <<"B", StringSchema>>>>)

PropertyPath(names) == <<"properties">> \o names

\* A family of resource documents: the typeName, what build() picks from
\* the root, the definitions, and the paths readOnlyProperties is drawn from.
DocumentShapes ==
  { \* two string properties, one of them required
    [ typeNames |-> {"Test::Resource", "Test::Unit::Resource"},
      rootSchema |-> [properties |-> <<<<"Name", StringSchema>>, <<"Id", StringSchema>>>>,
                required |-> <<"Name">>],
      definitions |-> <<>>,
      paths |-> {PropertyPath(<<"Id">>), PropertyPath(<<"Name">>),
                 PropertyPath(<<"Nope">>)} ],
    \* an inline object with two children
    [ typeNames |-> {"Test::Unit::Resource"},
      rootSchema |-> [properties |-> <<<<"Id", StringSchema>>, <<"P", PairAB>>>>],
      definitions |-> <<>>,
      paths |-> {PropertyPath(<<"Id">>), PropertyPath(<<"P">>),
                 PropertyPath(<<"P", "A">>), PropertyPath(<<"P", "B">>)} ],
    \* one definition used by two properties
    [ typeNames |-> {"Test::Unit::Resource"},
      rootSchema |-> [properties |-> <<<<"P", RefTo("D")>>, <<"R", RefTo("D")>>>>],
      definitions |-> <<<<"D", PairAB>>>>,
      paths |-> {PropertyPath(<<"P", "A">>), PropertyPath(<<"P", "B">>),
                 PropertyPath(<<"R", "A">>), PropertyPath(<<"R", "B">>)} ],
    \* arrays
    [ typeNames |-> {"Test::Unit::Resource"},
      rootSchema |-> [properties |-> <<<<"Id", ArrayOf(StringSchema)>>,
                                 <<"P", ArrayOf(RefTo("D"))>>>>],
      definitions |-> <<<<"D", PairAB>>>>,
      paths |-> {PropertyPath(<<"Id">>), PropertyPath(<<"P">>),
                 PropertyPath(<<"P", "*", "A">>), PropertyPath(<<"P", "*", "B">>)} ],
    \* an object nested in an object
    [ typeNames |-> {"Test::Unit::Resource"},
      rootSchema |-> [properties |-> <<<<"Id", StringSchema>>,
                                 <<"P", ObjectOf(<<<<"Q", PairAB>>>>)>>>>],
      definitions |-> <<>>,
      paths |-> {PropertyPath(<<"Id">>), PropertyPath(<<"P", "Q">>),
                 PropertyPath(<<"P", "Q", "A">>), PropertyPath(<<"P", "Q", "B">>)} ],
    \* a root whose anyOf branches differ in what they require
    [ typeNames |-> {"Test::Unit::Resource"},
      rootSchema |-> [properties |-> <<<<"Name", StringSchema>>, <<"Id", StringSchema>>>>,
                anyOf |-> <<[required |-> <<"Name">>], [required |-> <<"Id">>]>>],
      definitions |-> <<>>,
      paths |-> {PropertyPath(<<"Id">>), PropertyPath(<<"Name">>)} ],
    \* a definition that refers to itself, and one nobody refers to
    [ typeNames |-> {"Test::Unit::Resource"},
      rootSchema |-> [properties |-> <<<<"Id", StringSchema>>, <<"P", RefTo("A")>>>>],
      definitions |-> <<<<"A", ObjectOf(<<<<"Value", StringSchema>>,
                                          <<"Next", RefTo("A")>>>>)>>,
                        <<"Unused", PairAB>>>>,
      paths |-> {PropertyPath(<<"Id">>), PropertyPath(<<"P", "Value">>),
                 PropertyPath(<<"P", "Next", "Value">>)} ],
    \* definitions of a string, of a tag and a record property
    [ typeNames |-> {"Test::Unit::Resource"},
      rootSchema |-> [properties |-> <<<<"Arn", RefTo("Arn")>>,
                                 <<"Tags", ArrayOf(RefTo("Tag"))>>,
                                 <<"Meta", [type |-> "object"]>>>>],
      definitions |-> <<<<"Arn", StringSchema>>,
                        <<"Tag", ObjectOf(<<<<"Key", StringSchema>>,
                                            <<"Value", StringSchema>>>>)>>>>,
      paths |-> {PropertyPath(<<"Arn">>), PropertyPath(<<"Tags">>),
                 PropertyPath(<<"Meta">>)} ],
    \* schemas the walker falls back on
    [ typeNames |-> {"Test::Unit::Resource"},
      rootSchema |-> [properties |->
                   <<<<"Id", StringSchema>>,
                     <<"U", [additionalProperties |-> FALSE]>>,
                     <<"V", ("$ref" :> [inDoc |-> FALSE, parts |-> <<>>])>>,
                     <<"W", [allOf |-> <<[type |-> "string", minLength |-> "n:1"],
                                         [minLength |-> "n:5"]>>]>>,
                     <<"X", [type |-> "string", items |-> StringSchema]>>>>],
      definitions |-> <<>>,
      paths |-> {PropertyPath(<<"Id">>), PropertyPath(<<"Nope">>)} ],
    \* a property whose type depends on the branch
    [ typeNames |-> {"Test::Unit::Resource"},
      rootSchema |-> [anyOf |-> <<ObjectOf(<<<<"Id", StringSchema>>>>),
                             ObjectOf(<<<<"Id", IntegerSchema>>>>)>>],
      definitions |-> <<>>,
      paths |-> {PropertyPath(<<"Id">>)} ],
    \* references that lead nowhere: to a definition the document lacks, to
    \* a path the document lacks, and one to a property of the document
    [ typeNames |-> {"Test::Unit::Resource"},
      rootSchema |-> [properties |->
                   <<<<"Id", StringSchema>>,
                     <<"G", RefTo("Gone")>>,
                     <<"H", ("$ref" :> [inDoc |-> TRUE,
                                        parts |-> <<"properties", "Nope">>])>>,
                     <<"K", ("$ref" :> [inDoc |-> TRUE,
                                        parts |-> <<"properties", "Id">>])>>>>],
      definitions |-> <<<<"D", PairAB>>>>,
      paths |-> {PropertyPath(<<"Id">>), PropertyPath(<<"G">>),
                 PropertyPath(<<"G", "A">>)} ],
    \* a const whose value is an object
    [ typeNames |-> {"Test::Unit::Resource"},
      rootSchema |-> [properties |-> <<<<"Id", StringSchema>>,
                                 <<"C", [const |-> "o:{}"]>>>>],
      definitions |-> <<>>,
      paths |-> {PropertyPath(<<"Id">>)} ],
    \* an enum with an array among its values
    [ typeNames |-> {"Test::Unit::Resource"},
      rootSchema |-> [properties |-> <<<<"Id", StringSchema>>,
                                 <<"E", [enum |-> <<"s:a", "a:[]">>]>>>>],
      definitions |-> <<>>,
      paths |-> {PropertyPath(<<"Id">>)} ],
    \* an object without properties that allows additional ones
    [ typeNames |-> {"Test::Unit::Resource"},
      rootSchema |-> [properties |->
                   <<<<"Id", StringSchema>>,
                     <<"M", [type |-> "object", additionalProperties |-> TRUE]>>>>],
      definitions |-> <<>>,
      paths |-> {PropertyPath(<<"Id">>)} ],
    \* an AWS resource whose branches name one property with and without dots
    [ typeNames |-> {"AWS::Amplify::Branch"},
      rootSchema |-> [anyOf |-> <<ObjectOf(<<<<"EndpointAddress", StringSchema>>>>),
                             ObjectOf(<<<<"Endpoint.Address", StringSchema>>>>)>>],
      definitions |-> <<>>,
      paths |-> {PropertyPath(<<"Endpoint.Address">>)} ],
    \* an AWS resource whose extra attribute is an object
    [ typeNames |-> {"AWS::Amplify::Branch"},
      rootSchema |-> [properties |-> <<<<"Arn", StringSchema>>,
                                 <<"BranchName", PairAB>>>>],
      definitions |-> <<>>,
      paths |-> {PropertyPath(<<"Arn">>)} ],
    \* definitions that are references to each other
    [ typeNames |-> {"Test::Unit::Resource"},
      rootSchema |-> [properties |-> <<<<"Id", StringSchema>>, <<"P", RefTo("A")>>>>],
      definitions |-> <<<<"A", RefTo("B")>>, <<"B", RefTo("A")>>>>,
      paths |-> {PropertyPath(<<"Id">>)} ],
    \* a definition that is an array of references to itself
    [ typeNames |-> {"Test::Unit::Resource"},
      rootSchema |-> [properties |-> <<<<"Id", StringSchema>>, <<"P", RefTo("A")>>>>],
      definitions |-> <<<<"A", ArrayOf(RefTo("A"))>>>>,
      paths |-> {PropertyPath(<<"Id">>)} ],
    \* a property that is one object or another
    [ typeNames |-> {"Test::Unit::Resource"},
      rootSchema |-> [properties |->
                   <<<<"Id", StringSchema>>,
                     <<"P", [anyOf |-> <<ObjectOf(<<<<"A", StringSchema>>>>),
                                         ObjectOf(<<<<"B", StringSchema>>>>)>>]>>>>],
      definitions |-> <<>>,
      paths |-> {PropertyPath(<<"Id">>), PropertyPath(<<"P", "A">>),
                 PropertyPath(<<"P", "B">>)} ],
    \* a read-only property that refers to an enum, beside a writable one
    \* that refers to an object
    [ typeNames |-> {"Test::Unit::Resource"},
      rootSchema |-> [properties |-> <<<<"Id", RefTo("E")>>, <<"P", RefTo("D")>>>>],
      definitions |-> <<<<"D", PairAB>>, <<"E", [enum |-> <<"s:a", "s:b">>]>>>>,
      paths |-> {PropertyPath(<<"Id">>)} ],
    \* an AWS resource with an extra attribute and a dotted path
    [ typeNames |-> {"AWS::Amplify::Branch"},
      rootSchema |-> [properties |-> <<<<"Arn", StringSchema>>,
                                 <<"BranchName", StringSchema>>,
                                 <<"EndpointAddress", StringSchema>>>>],
      definitions |-> <<>>,
      paths |-> {PropertyPath(<<"Arn">>), PropertyPath(<<"Endpoint.Address">>)} ] }

\* definitions that refer to one another in a cycle, in every table order
ChainDefinitions ==
  { <<"A", ObjectOf(<<<<"Next", RefTo("C")>>>>)>>,
    <<"B", ObjectOf(<<<<"Next", RefTo("A")>>>>)>>,
    <<"C", ObjectOf(<<<<"Next", RefTo("B")>>>>)>>,
    <<"Unused", PairAB>> }

ChainShapes ==
  { [ typeNames |-> {"Test::Unit::Resource"},
      rootSchema |-> [properties |-> <<<<"Id", StringSchema>>, <<"P", RefTo("C")>>>>],
      definitions |-> ds,
      paths |-> {PropertyPath(<<"Id">>)} ]
    : ds \in {s \in SeqsOf(ChainDefinitions, 4, 4) : Cardinality(Range(s)) = 4} }

\* a property of each primitive type, carrying each choice of documentation
\* fields, as a property, as the items of an array and under a pattern
PrimitiveTypeNames == {"boolean", "integer", "number", "null", "string"}

DocumentationFields ==
  [description |-> "s:a", format |-> "s:b", minLength |-> "n:1", default |-> "b:true"]

PrimitiveSchema(type, fields) == [type |-> type] @@ Restrict(DocumentationFields, fields)

PrimitiveShapes ==
  { [ typeNames |-> {"Test::Unit::Resource"},
      rootSchema |-> [properties |->
                   <<<<"V", PrimitiveSchema(type, fields)>>,
                     <<"W", ArrayOf(PrimitiveSchema(type, fields))>>,
                     <<"X", [type |-> "object",
                             patternProperties |->
                               <<<<"a", PrimitiveSchema(type, fields)>>>>]>>>>],
      definitions |-> <<>>,
      paths |-> {} ]
    : type \in PrimitiveTypeNames, fields \in SUBSET DOMAIN DocumentationFields }

\* fragments that satisfy several of the shape predicates of #walkType at
\* once: each choice of type with each choice of the other shape fields, as
\* a property (V) and, with and without a format, under a pattern (X)
PriorityTypeFields ==
  {EmptyObject} \cup
  {[type |-> t] : t \in {"array", "boolean", "integer", "number", "null", "string",
                          "object", "[string,number]"}}

PriorityFields ==
  ("$ref" :> [inDoc |-> TRUE, parts |-> <<"definitions", "D">>])
    @@ [const |-> "s:a",
        enum |-> <<"s:a", "s:b">>,
        properties |-> <<<<"A", StringSchema>>>>,
        anyOf |-> <<StringSchema, IntegerSchema>>]

PriorityFragments ==
  {typeField @@ Restrict(PriorityFields, fields) :
     typeField \in PriorityTypeFields, fields \in SUBSET DOMAIN PriorityFields}

PriorityShapes ==
  { [ typeNames |-> {"Test::Unit::Resource"},
      rootSchema |-> [properties |->
                   <<<<"V", fragment>>,
                     <<"X", [type |-> "object",
                             patternProperties |-> <<<<"a", fragment @@ hint>>>>]>>>>],
      definitions |-> <<<<"D", PairAB>>>>,
      paths |-> {} ]
    : fragment \in PriorityFragments, hint \in {EmptyObject, [format |-> "s:b"]} }
  \cup
  { \* a type that every branch of the anyOf repeats
    [ typeNames |-> {"Test::Unit::Resource"},
      rootSchema |-> [properties |->
                   <<<<"V", [type |-> "string",
                             anyOf |-> <<[type |-> "string", enum |-> <<"s:a">>],
                                         [type |-> "string", enum |-> <<"s:b">>]>>]>>,
                     <<"X", [type |-> "object",
                             patternProperties |-> <<<<"a", StringSchema>>>>]>>>>],
      definitions |-> <<>>,
      paths |-> {} ] }

\* fragments without a type that carry a format or a pattern, in each place
\* a fragment can occur: a property, the items of an array, a definition, a
\* branch of a union and the value of a record
FormatHints == {[format |-> "s:b"], [pattern |-> "s:a"]}

FormatShapes ==
  { [ typeNames |-> {"Test::Unit::Resource"},
      rootSchema |-> [properties |->
                   <<<<"V", hint>>,
                     <<"W", [type |-> "array", items |-> hint]>>,
                     <<"P", RefTo("D")>>,
                     <<"U", [anyOf |-> <<hint, IntegerSchema>>]>>,
                     <<"X", [type |-> "object",
                             patternProperties |-> <<<<"a", hint>>>>]>>>>],
      definitions |-> <<<<"D", hint>>>>,
      paths |-> {} ]
    : hint \in FormatHints }

PathLists(paths) ==
  {s \in SeqsOf(paths, 0, MaxPaths) : Cardinality(Range(s)) = Len(s)}

\* the documents a shape stands for; readOnlyProperties is left out, given
\* empty or given as a list of distinct paths
DocumentsOf(shape) ==
  LET base(typeName) ==
        shape.rootSchema @@ [typeName |-> typeName]
          @@ (IF shape.definitions = <<>> THEN EmptyObject
              ELSE [definitions |-> shape.definitions])
  IN {base(typeName) : typeName \in shape.typeNames}
       \cup { base(typeName) @@ [readOnlyProperties |-> ps]
              : typeName \in shape.typeNames, ps \in PathLists(shape.paths) }

Documents ==
  UNION {DocumentsOf(shape) : shape \in DocumentShapes \cup ChainShapes \cup PrimitiveShapes
                                         \cup PriorityShapes \cup FormatShapes}

\* the state after `new ResourceBuilder(schema, options)`: the constructor
\* stores the schema and the empty root, and leaves #problems unassigned
Init ==
  /\ pc = "constructed"
  /\ resourceSchema \in Documents
  /\ thisProblems = "undefined"
  /\ optionsProblems \in {[given |-> g, received |-> <<>>] : g \in BOOLEAN}
  /\ warnCalls = <<>>
  /\ relevantKeys = RelevantKeys
  /\ root = [typeName |-> resourceSchema["typeName"],
             definitions |-> <<>>,
             properties |-> [type |-> [type |-> "unknown", id |-> "/"]]]
  /\ mode = None
  /\ referencedNames = {}
  /\ statements = <<>>
  /\ definitions = <<>>
  /\ thisPass = 0
  /\ cursor = 0
  /\ MergeIdle
  /\ UnionIdle
  /\ LibIdle

\* this.#problems?.warn(...): what the reporter has received after `calls`
Delivered(calls) ==
  IF thisProblems = "undefined" THEN optionsProblems
  ELSE [optionsProblems EXCEPT !.received = @ \o calls]

\* builder.build()
Build ==
  /\ pc = "constructed"
  /\ \E r \in {build(resourceSchema, relevantKeys)} :
       /\ root' = r.root
       /\ warnCalls' = warnCalls \o r.w
       /\ optionsProblems' = Delivered(r.w)
       /\ relevantKeys' = r.rk
       /\ pc' = IF r.x THEN "threw" ELSE "built"
  /\ UNCHANGED <<resourceSchema, thisProblems, mergeVars, libVars, unionVars, emitVars>>

\* how deep generateType may recurse before the run counts as not returning
MaxDepth == 6

\* the simplifier main constructs, in the mode it is in
Simplifier == [mode |-> mode, tagType |-> "import:Tag"]

\* schema.typeName.replaceAll(/^AWS|::|\./g, "")
mangledTypeName(typeName) ==
  LET parts == TypeNameParts[typeName] IN
    JoinWith(IF parts[1] = "AWS" THEN Tail(parts) ELSE parts, "")

\* where a generator call leaves the program
After(g, then) == IF g.x THEN "threw" ELSE IF g.cut THEN "diverged" ELSE then

\* main, from the simplifier's construction to the properties type
RenderProperties ==
  /\ pc = "built"
  /\ IF Len(TypeNameParts[root.typeName]) < 3
       THEN /\ pc' = "threw"
            /\ UNCHANGED emitVars
       ELSE LET name == mangledTypeName(root.typeName)
                ref == createTypeReference(
                         Generator(referencedNames),
                         IF HasAttributes(root)
                           THEN "import:ResourceDefinitionWithAttributes"
                           ELSE "import:ResourceDefinition",
                         <<LiteralTypeNode(root.typeName),
                           TypeReferenceNode(name \o "Props", <<>>)>>
                           \o (IF HasAttributes(root)
                                 THEN <<TypeReferenceNode(name \o "Attribs", <<>>)>>
                                 ELSE <<>>))
                props == generateTypeDefinition(
                           root, [mode |-> "resource", tagType |-> "import:Tag"],
                           ref.g, name \o "Props", RootAddr, MaxDepth)
            IN /\ mode' = "resource"
               /\ referencedNames' = props.g.referencedNames
               /\ statements' = IF Failed(props.g)
                                  THEN <<[name |-> name, type |-> ref.out]>>
                                  ELSE <<[name |-> name, type |-> ref.out], props.out>>
               /\ pc' = After(props.g, IF HasAttributes(root) THEN "attributes" ELSE "pass")
               /\ UNCHANGED <<definitions, thisPass, cursor>>
  /\ UNCHANGED <<mergeVars, libVars, unionVars, buildVars>>

\* main: the attributes type, rendered in mode "attributes"
RenderAttributes ==
  /\ pc = "attributes"
  /\ LET attribs == generateTypeDefinition(
                      root, [mode |-> "attributes", tagType |-> "import:Tag"],
                      Generator(referencedNames),
                      mangledTypeName(root.typeName) \o "Attribs", AttrAddr, MaxDepth)
     IN /\ mode' = IF Failed(attribs.g) THEN "attributes" ELSE "resource"
        /\ referencedNames' = attribs.g.referencedNames
        /\ statements' = IF Failed(attribs.g) THEN statements
                         ELSE Append(statements, attribs.out)
        /\ pc' = After(attribs.g, "pass")
  /\ UNCHANGED <<definitions, thisPass, cursor, mergeVars, libVars, unionVars, buildVars>>

\* do { thisPass = 0; for (...) {
BeginPass ==
  /\ pc = "pass"
  /\ thisPass' = 0
  /\ cursor' = 1
  /\ pc' = "scan"
  /\ UNCHANGED <<mode, referencedNames, statements, definitions,
                 mergeVars, libVars, unionVars, buildVars>>

alreadyGenerated(name) == \E i \in 1..Len(definitions) : definitions[i][1] = name

\* mutant: every definition counts as referenced
isReferencedAlways(name) == TRUE

\* code.referencedNames.has(name)
isReferenced(name) == name \in referencedNames

\* one iteration of the for loop over Object.entries(resource.definitions)
Visit ==
  /\ pc = "scan"
  /\ cursor <= Len(root.definitions)
  /\ LET name == root.definitions[cursor][1] IN
       IF isReferenced(name) /\ ~ alreadyGenerated(name)
         THEN \E r \in {generateTypeDefinition(root, Simplifier,
                                                 Generator(referencedNames), name,
                                                 DefAddr(name), MaxDepth)} :
                 /\ referencedNames' = r.g.referencedNames
                 /\ definitions' = IF Failed(r.g) THEN definitions
                                   ELSE Append(definitions, <<name, r.out>>)
                 /\ thisPass' = IF Failed(r.g) THEN thisPass ELSE thisPass + 1
                 /\ pc' = After(r.g, "scan")
                 /\ cursor' = IF Failed(r.g) THEN cursor ELSE cursor + 1
         ELSE /\ cursor' = cursor + 1
              /\ UNCHANGED <<pc, referencedNames, definitions, thisPass>>
  /\ UNCHANGED <<mode, statements, mergeVars, libVars, unionVars, buildVars>>

\* } while (thisPass > 0), when another pass is due
NextPass ==
  /\ pc = "scan"
  /\ cursor > Len(root.definitions)
  /\ thisPass > 0
  /\ pc' = "pass"
  /\ UNCHANGED <<emitVars, mergeVars, libVars, unionVars, buildVars>>

\* the end of the loop: the definitions are sorted and appended, the
\* imports go on top
Finish ==
  /\ pc = "scan"
  /\ cursor > Len(root.definitions)
  /\ thisPass = 0
  /\ definitions' = sortEntries(definitions)
  /\ statements' = <<[imports |-> referencedNames \cap ImportedNames]>>
                     \o statements
                     \o [i \in 1..Len(definitions) |-> sortEntries(definitions)[i][2]]
  /\ pc' = "done"
  /\ UNCHANGED <<mode, referencedNames, thisPass, cursor,
                 mergeVars, libVars, unionVars, buildVars>>

Next ==
  \/ Build
  \/ RenderProperties
  \/ RenderAttributes
  \/ BeginPass
  \/ Visit
  \/ NextPass
  \/ Finish

Spec == Init /\ [][Next]_vars

\* the emit loop, scheduled: main goes on while the loop has a step to take
EmitLoop == BeginPass \/ Visit \/ NextPass \/ Finish

FairSpec == Spec /\ WF_vars(EmitLoop)

\* ----------------------------------------------------------- the views

ResourceMode == [mode |-> "resource", tagType |-> "import:Tag"]
AttributesMode == [mode |-> "attributes", tagType |-> "import:Tag"]

\* simplifier.simplifyType(resource.properties.type)
WritableView ==
  simplifyType(root, "resource", "import:Tag", GraphNode(root, RootAddr), MaxDepth).t

\* simplifier.simplifyType(resource.attributes.type) in mode "attributes"
AttributesView ==
  simplifyType(root, "attributes", "import:Tag", GraphNode(root, AttrAddr), MaxDepth).t

\* code.generateTypeDefinition(..., resource.properties)
RenderedProperties ==
  generateTypeDefinition(root, ResourceMode, Generator({}), "Props", RootAddr,
                         MaxDepth).out.type

\* code.generateTypeDefinition(..., resource.attributes) in mode "attributes"
RenderedAttributes ==
  generateTypeDefinition(root, AttributesMode, Generator({}), "Attribs", AttrAddr,
                         MaxDepth).out.type

NamesOf(entries) == {entries[i][1] : i \in 1..Len(entries)}
MemberNames(node) == {node.members[i].name : i \in 1..Len(node.members)}
Member(node, name) ==
  node.members[CHOOSE i \in 1..Len(node.members) : node.members[i].name = name]

Built == pc = "built"

ReadOnlyPaths ==
  IF Has(resourceSchema, "readOnlyProperties")
    THEN resourceSchema["readOnlyProperties"] ELSE <<>>

\* C2: every warning ResourceBuilder.build falls back on (unknown schema
\* type, invalid reference, merge conflict, ignored extra keys, unresolvable
\* read-only path, attribute with multiple possible types) is delivered to
\* the reporter passed as options.problems; none is dropped.
C2_WarningsReachReporter ==
  optionsProblems.given => optionsProblems.received = warnCalls

\* the document of the Test::Resource scenario
TestResource ==
  [typeName |-> "Test::Resource",
   properties |-> <<<<"Name", StringSchema>>, <<"Id", StringSchema>>>>,
   required |-> <<"Name">>,
   readOnlyProperties |-> <<PropertyPath(<<"Id">>)>>]

\* C5: for Test::Resource with string properties Name and Id, required
\* ["Name"] and readOnlyProperties ["/properties/Id"], build followed by
\* rendering yields a writable-properties object type that holds Name as a
\* required property and not Id, and an attributes object type whose only
\* property is Id.
C5_TestResourceRoundTrip ==
  (Built /\ resourceSchema = TestResource) =>
    /\ WritableView.type = "object"
    /\ NamesOf(WritableView.properties) = {"Name"}
    /\ "Name" \in Range(WritableView.required)
    /\ RenderedProperties.kind = "typeLiteral"
    /\ MemberNames(RenderedProperties) = {"Name"}
    /\ ~ Member(RenderedProperties, "Name").questionToken
    /\ HasAttributes(root)
    /\ AttributesView.type = "object"
    /\ NamesOf(AttributesView.properties) = {"Id"}
    /\ RenderedAttributes.kind = "typeLiteral"
    /\ MemberNames(RenderedAttributes) = {"Id"}

C5_Witness == Built /\ resourceSchema = TestResource /\ root.properties.type.type = "object"

\* whether a type holds an object type, following references
RECURSIVE HoldsObject(_, _)
HoldsObject(rt, type) ==
  IF type.type = "object" THEN TRUE
  ELSE IF type.type = "array" THEN HoldsObject(rt, type.items.type)
  ELSE IF type.type = "reference"
    THEN HasDefinition(rt, type.name) /\ HoldsObject(rt, Definition(rt, type.name).type)
  ELSE IF type.type = "union"
    THEN \E i \in 1..Len(type.items) : HoldsObject(rt, type.items[i])
  ELSE FALSE

\* the properties a path resolves to in the built graph
ResolvedBy(path) == findProperty(root, path, FALSE).props

ResolvesToLeaf(path) ==
  /\ ResolvedBy(path) # <<>>
  /\ \A i \in 1..Len(ResolvedBy(path)) :
       ~ HoldsObject(root, TypeAt(root, ResolvedBy(path)[i]))

\* a path with no wildcard segment whose property's type holds no object or
\* record
Eligible(path) ==
  /\ "*" \notin Range(path)
  /\ ResolvedBy(path) # <<>>
  /\ isValidAttributeType(root, TypeAt(root, ResolvedBy(path)[1]))

\* C6: when every readOnlyProperties path resolves to a leaf property, the
\* writable view is an object type whose property set is the complement of
\* the read-only paths, and the attributes view is an object type whose
\* property set is the read-only paths without a wildcard segment whose type
\* holds no object or record.
C6_ViewsPartitionProperties ==
  (/\ Built
   /\ Has(resourceSchema, "readOnlyProperties")
   /\ \A i \in 1..Len(ReadOnlyPaths) : ResolvesToLeaf(ReadOnlyPaths[i])) =>
    /\ WritableView.type = "object"
    /\ NamesOf(WritableView.properties) =
         NamesOf(resourceSchema["properties"])
           \ {ReadOnlyPaths[i][2] : i \in {j \in 1..Len(ReadOnlyPaths) :
                                            Len(ReadOnlyPaths[j]) = 2}}
    /\ HasAttributes(root)
    /\ AttributesView.type = "object"
    /\ NamesOf(AttributesView.properties) =
         {AttributeName(ReadOnlyPaths[i]) :
            i \in {j \in 1..Len(ReadOnlyPaths) : Eligible(ReadOnlyPaths[j])}}

\* the object type a property has, following references
ObjectOfProperty(addr) == Dereference(root, addr).addr

\* the parents C7 speaks of: a property found at the parent path of a
\* read-only path, whose type is an object with exactly two children, both
\* named by read-only paths
PromotableParents ==
  { <<q, addr>> \in
      UNION { {<<dirname(ReadOnlyPaths[i]), ResolvedBy(dirname(ReadOnlyPaths[i]))[k]>>
               : k \in 1..Len(ResolvedBy(dirname(ReadOnlyPaths[i])))}
              : i \in 1..Len(ReadOnlyPaths) } :
      LET object == TypeAt(root, ObjectOfProperty(addr)) IN
        /\ object.type = "object"
        /\ Len(object.properties) = 2
        /\ \A n \in NamesOf(object.properties) : Append(q, n) \in Range(ReadOnlyPaths) }

\* C7: when an object-typed property has exactly two child properties and
\* both are marked read-only by explicit readOnlyProperties paths, after
\* build the parent has readOnly = true and neither child has.
C7_AncestorPromotion ==
  Built =>
    \A parent \in PromotableParents :
      /\ PropertyAt(root, parent[2]).readOnly
      /\ \A i \in 1..Len(TypeAt(root, ObjectOfProperty(parent[2])).properties) :
           ~ TypeAt(root, ObjectOfProperty(parent[2])).properties[i][2].readOnly

\* build() has thrown
BuildThrew == pc = "threw" /\ statements = <<>> /\ Len(TypeNameParts[root.typeName]) >= 3

\* build() has ended, one way or the other
BuildEnded == Built \/ BuildThrew

\* the properties of the document whose schema is a $ref
RefProperties ==
  IF ~ Has(resourceSchema, "properties") THEN {}
  ELSE { i \in 1..Len(resourceSchema["properties"]) :
           Has(resourceSchema["properties"][i][2], "$ref") }

\* a $ref that leads nowhere: not a reference into the document, a path
\* the document lacks, or a definition the document lacks
IsDangling(ref) ==
  \/ ~ ref.inDoc
  \/ ~ resolveParts(resourceSchema, FALSE, ref.parts).found

DanglingProperties ==
  { resourceSchema["properties"][i][1] :
      i \in {j \in RefProperties :
               IsDangling(resourceSchema["properties"][j][2]["$ref"])} }

WarnedAt(location, message) ==
  \E i \in 1..Len(warnCalls) :
    warnCalls[i] = [location |-> location, message |-> message]

\* C11: a $ref whose target is dangling or unsupported is walked to the
\* unknown Type and a warning is reported for it; it never aborts the build.
C11_DanglingRefIsUnknown ==
  (BuildEnded /\ DanglingProperties # {}) =>
    /\ Built
    /\ \A name \in DanglingProperties :
         /\ Property(root.properties.type, name).type.type = "unknown"
         /\ WarnedAt(Join("/properties", name), "invalid reference")

\* the properties of the document whose schema is a fragment the walker
\* asserts against: a const or an enum with a value that is no JSON
\* primitive, an object without properties that sets additionalProperties
IsMalformed(schema) ==
  \/ Has(schema, "const") /\ ~ isJsonPrimitive(schema["const"])
  \/ Has(schema, "enum")
       /\ \E i \in 1..Len(schema["enum"]) : ~ isJsonPrimitive(schema["enum"][i])
  \/ /\ DOMAIN schema = {"type", "additionalProperties"}
     /\ schema["type"] = "object"
     /\ schema["additionalProperties"] = TRUE

MalformedProperties ==
  IF ~ Has(resourceSchema, "properties") THEN {}
  ELSE { resourceSchema["properties"][i][1] :
           i \in {j \in 1..Len(resourceSchema["properties"]) :
                    IsMalformed(resourceSchema["properties"][j][2])} }

\* C12: build completes without throwing whatever malformed fragment the
\* document holds; the fragment is walked to the unknown Type and the rest
\* of the document is walked as usual.
C12_MalformedFragmentIsUnknown ==
  (BuildEnded /\ MalformedProperties # {}) =>
    /\ Built
    /\ \A name \in MalformedProperties :
         Property(root.properties.type, name).type.type = "unknown"
    /\ Property(root.properties.type, "Id").type.type = "string"

\* the names the extra-attributes table lists for the resource and that the
\* resource has as properties
ListedProperties ==
  IF root.typeName \notin DOMAIN ExtraAttributes \/ root.properties.type.type # "object"
    THEN {}
  ELSE { name \in Range(ExtraAttributes[root.typeName]) :
           HasProperty(root.properties.type, name) }

\* readOnlyProperties names the property or something below it
IsListedReadOnly(name) ==
  /\ Has(resourceSchema, "readOnlyProperties")
  /\ \E i \in 1..Len(resourceSchema["readOnlyProperties"]) :
       /\ Len(resourceSchema["readOnlyProperties"][i]) >= 2
       /\ resourceSchema["readOnlyProperties"][i][2] = name

\* C13: for a resource of the extra-attributes table, build marks every
\* listed property as an attribute whatever its type, and does not set its
\* readOnly flag.
C13_ExtraAttributesAlwaysMarked ==
  Built =>
    \A name \in ListedProperties :
      /\ Property(root.properties.type, name).isAttribute
      /\ ~ IsListedReadOnly(name) => ~ Property(root.properties.type, name).readOnly

\* a union as simplifyUnionType leaves it: two members or more, none of
\* them a union, no two of them the same type
WellFormedUnion(t) ==
  /\ Len(t.items) >= 2
  /\ \A i \in 1..Len(t.items) : t.items[i].type # "union"
  /\ NoSameTypePair(t.items)

\* every union at or below `t` is well formed
RECURSIVE UnionsWellFormed(_)
UnionsWellFormed(t) ==
  /\ t.type = "union" => WellFormedUnion(t)
  /\ IF t.type = "array" THEN UnionsWellFormed(t.items.type)
     ELSE IF t.type = "object"
       THEN \A i \in 1..Len(t.properties) : UnionsWellFormed(t.properties[i][2].type)
     ELSE IF t.type = "record" THEN UnionsWellFormed(t.value)
     ELSE IF t.type = "union"
       THEN \A i \in 1..Len(t.items) : UnionsWellFormed(t.items[i])
     ELSE TRUE

\* the addresses of the owners of the graph
OwnerAddrs(rt) ==
  {RootAddr} \cup {DefAddr(rt.definitions[i][1]) : i \in 1..Len(rt.definitions)}
    \cup (IF HasAttributes(rt) THEN {AttrAddr} ELSE {})

\* the addresses one step below the node at `addr`
ChildAddrs(rt, addr) ==
  LET t == TypeAt(rt, addr) IN
    IF t.type = "array" THEN {Down(addr, ItemsStep)}
    ELSE IF t.type = "object"
      THEN {Down(addr, PropStep(t.properties[i][1])) : i \in 1..Len(t.properties)}
    ELSE IF t.type = "record" THEN {Down(addr, ValueStep)}
    ELSE IF t.type = "union"
      THEN {Down(addr, MemberStep(i)) : i \in 1..Len(t.items)}
    ELSE {}

\* simplifyType, in the given mode, returns no ill-formed union for the node
\* at `addr` nor for any node below it
RECURSIVE ViewUnionsWellFormed(_, _, _)
ViewUnionsWellFormed(rt, simplifierMode, addr) ==
  /\ \E v \in {simplifyType(rt, simplifierMode, "import:Tag",
                             GraphNode(rt, addr), MaxDepth).t} :
       v.type = "union" => WellFormedUnion(v)
  /\ \A child \in ChildAddrs(rt, addr) : ViewUnionsWellFormed(rt, simplifierMode, child)

SimplifierModes == {"resource", "attributes", "model"}

\* C15: every union Type in the graph build returns, and every union the
\* view simplifier returns, has at least two members, no union among its
\* members and no two members that are the same type.
C15_UnionsWellFormed ==
  Built =>
    /\ \A addr \in OwnerAddrs(root) : UnionsWellFormed(TypeAt(root, addr))
    /\ \A simplifierMode \in SimplifierModes : \A addr \in OwnerAddrs(root) :
         ViewUnionsWellFormed(root, simplifierMode, addr)

\* simplifyType in "model" mode returns a Type equal to the one it is handed,
\* for the node at `addr` and for every node below it
RECURSIVE ModelViewIsIdentity(_, _, _)
ModelViewIsIdentity(rt, tagType, addr) ==
  /\ simplifyType(rt, "model", tagType, GraphNode(rt, addr), MaxDepth).t
       = TypeAt(rt, addr)
  /\ \A child \in ChildAddrs(rt, addr) : ModelViewIsIdentity(rt, tagType, child)

\* C16: in "model" mode the view simplifier is the identity: whatever Type
\* it is handed (object, reference, union or other), it returns that Type,
\* with no property filtered and no reference inlined or replaced.
C16_ModelViewIsIdentity ==
  Built =>
    \A tagType \in {None, "import:Tag"} : \A addr \in OwnerAddrs(root) :
      ModelViewIsIdentity(root, tagType, addr)

\* a schema fragment of a primitive type that carries nothing besides
\* documentation fields
IsPrimitiveFragment(schema) ==
  /\ Has(schema, "type")
  /\ schema["type"] \in PrimitiveTypeNames
  /\ DOMAIN schema \ {"type"} \subseteq SchemaDocumentationKeys

\* the Type of the property of the root that was walked at `location`
\* (the name of a property may change after the walk, its id does not)
WalkedProperty(location) ==
  root.properties.type.properties[
    CHOOSE j \in 1..Len(root.properties.type.properties) :
      root.properties.type.properties[j][2].type.id = location][2].type

RECURSIVE InlinedFrom(_, _, _, _)
InlinedFrom(rt, simplifierMode, type, fuel) ==
  IF fuel = 0 THEN {}
  ELSE IF type.type = "reference"
    THEN IF ~ HasDefinition(rt, type.name)
              \/ ~ shouldInline(Definition(rt, type.name).type, simplifierMode)
           THEN {}
           ELSE {type.name}
                  \cup InlinedFrom(rt, simplifierMode, Definition(rt, type.name).type,
                                   fuel - 1)
  ELSE IF type.type = "array"
    THEN InlinedFrom(rt, simplifierMode, type.items.type, fuel - 1)
  ELSE {}

InlinableCycles(rt, simplifierMode) ==
  { name \in NamesOf(rt.definitions) :
      name \in InlinedFrom(rt, simplifierMode, Definition(rt, name).type, MaxDepth) }

\* simplifyType and generateType, in the given mode, return for the node at
\* `addr` and for every node below it
RECURSIVE ViewReturns(_, _, _)
ViewReturns(rt, simplifierMode, addr) ==
  /\ simplifyType(rt, simplifierMode, "import:Tag", GraphNode(rt, addr), MaxDepth)
       # Diverged
  /\ ~ generateType(rt, [mode |-> simplifierMode, tagType |-> "import:Tag"],
                    Generator({}), GraphNode(rt, addr), MaxDepth).g.cut
  /\ \A child \in ChildAddrs(rt, addr) : ViewReturns(rt, simplifierMode, child)

\* C21: the view simplifier terminates on every definitions graph, cycles
\* made only of inlinable definitions included (A a reference to B and B a
\* reference to A; A an array of reference-to-A): simplifying and rendering
\* any node of the graph returns, in every mode.
C21_SimplifierTerminates ==
  /\ pc # "diverged"
  /\ Built =>
       \A simplifierMode \in SimplifierModes : \A addr \in OwnerAddrs(root) :
         ViewReturns(root, simplifierMode, addr)

\* in the modes that leave objects in place, what does not return is only
\* ever a cycle of inlinable definitions
DivergesOnlyOnCycles ==
  /\ pc = "diverged" => InlinableCycles(root, "resource") # {}
  /\ Built =>
       \A simplifierMode \in {"resource", "model"} :
         InlinableCycles(root, simplifierMode) = {} =>
           \A addr \in OwnerAddrs(root) : ViewReturns(root, simplifierMode, addr)

\* the shape predicates of the dispatch, in the order the walker is said to
\* try them
ShapeOrder ==
  <<"reference", "const", "enum", "array", "multi", "boolean", "number", "null",
    "string", "object", "record", "union">>

AppliesTo(shape, schema) ==
  IF shape = "reference" THEN Has(schema, "$ref")
  ELSE IF shape = "const" THEN Has(schema, "const")
  ELSE IF shape = "enum" THEN Has(schema, "enum")
  ELSE IF shape = "array" THEN Has(schema, "type") /\ schema["type"] = "array"
  ELSE IF shape = "multi" THEN IsMultiType(schema)
  ELSE IF shape = "boolean" THEN Has(schema, "type") /\ schema["type"] = "boolean"
  ELSE IF shape = "number"
    THEN Has(schema, "type") /\ schema["type"] \in {"integer", "number"}
  ELSE IF shape = "null" THEN Has(schema, "type") /\ schema["type"] = "null"
  ELSE IF shape = "string" THEN isStringSchema(schema)
  ELSE IF shape = "object" THEN isObjectSchema(schema)
  ELSE IF shape = "record" THEN isRecordSchema(schema)
  ELSE Has(schema, "anyOf") \/ Has(schema, "oneOf")

ShapesOf(schema) == {i \in 1..Len(ShapeOrder) : AppliesTo(ShapeOrder[i], schema)}

FirstShape(schema) ==
  ShapeOrder[CHOOSE i \in ShapesOf(schema) : \A j \in ShapesOf(schema) : i <= j]

\* the Type the walker of the given shape returns for the fragment
WalkedAs(shape, schema, location) ==
  With(WalkState(RelevantKeys), LAMBDA st :
    IF shape = "reference" THEN walkRefType(schema, location, st).t
    ELSE IF shape = "const" THEN walkConstType(schema, location, st).t
    ELSE IF shape = "enum" THEN walkEnumType(schema, location, st).t
    ELSE IF shape = "array" THEN walkArrayType(schema, location, st).t
    ELSE IF shape = "multi" THEN walkMultiType(schema, location, st).t
    ELSE IF shape \in {"boolean", "number", "null"}
      THEN walkPrimitiveType(schema, schema["type"], location, st).t
    ELSE IF shape = "string" THEN walkPrimitiveType(schema, "string", location, st).t
    ELSE IF shape \in {"object", "record"} THEN walkObjectType(schema, location, st).t
    ELSE walkUnion(schema, location, st).t)

\* the fragment #walkProperty hands to #walkType for a property of the root
FragmentOfProperty(i) ==
  extractDocumentation(resourceSchema["properties"][i][2],
                       Join("/properties", resourceSchema["properties"][i][1]),
                       WalkState(RelevantKeys)).type

\* the root of the document has properties and was walked to an object
RootWalked ==
  Has(resourceSchema, "properties") /\ root.properties.type.type = "object"

\* a property of the root as it reaches #walkType: the fragment, the
\* location it is walked at and the Type the graph holds for it
PropertyFragment(i) ==
  [schema |-> FragmentOfProperty(i),
   location |-> Join("/properties", resourceSchema["properties"][i][1]),
   under |-> "",
   type |-> root.properties.type.properties[i][2].type]

\* the properties of the root that are records of a single pattern
PatternProperties ==
  { j \in 1..Len(resourceSchema["properties"]) :
      /\ DOMAIN resourceSchema["properties"][j][2] = {"type", "patternProperties"}
      /\ Len(resourceSchema["properties"][j][2]["patternProperties"]) = 1
      /\ root.properties.type.properties[j][2].type.type = "record" }

\* the value of such a record as it reaches #walkType
PatternFragment(i) ==
  [schema |-> resourceSchema["properties"][i][2]["patternProperties"][1][2],
   location |->
     Join(Join(Join("/properties", resourceSchema["properties"][i][1]),
               "patternProperties"),
          resourceSchema["properties"][i][2]["patternProperties"][1][1]),
   under |-> Join(Join("/properties", resourceSchema["properties"][i][1]),
                  "patternProperties"),
   type |-> root.properties.type.properties[i][2].type.value]

SeveralShapes(f) == Cardinality(ShapesOf(f.schema)) >= 2

\* the graph holds the walked Type `t` for the fragment: as it is for a
\* property, as the one member of the record's value union under a pattern
HoldsWalked(f, t) ==
  IF f.under = "" THEN f.type = t
  ELSE f.type = simplifyUnionType([type |-> "union", id |-> f.under, items |-> <<t>>])

WalkedInOrder(f) ==
  SeveralShapes(f) =>
    HoldsWalked(f, WalkedAs(FirstShape(f.schema), f.schema, f.location))

Dispatched(schema) ==
  IF RepeatsType(schema, "anyOf") \/ RepeatsType(schema, "oneOf")
    THEN Without(schema, {"type"}) ELSE schema

WalkedInOrderAfterRepeatedType(f) ==
  SeveralShapes(f) =>
    HoldsWalked(f, WalkedAs(FirstShape(Dispatched(f.schema)), Dispatched(f.schema),
                            f.location))

WalkedGraph == walkDocument(resourceSchema, RelevantKeys).rt

\* a Type with the classification flags of every PropertyInfo cleared
RECURSIVE Unflagged(_)
Unflagged(t) ==
  IF t.type = "object"
    THEN [t EXCEPT !.properties =
            [i \in 1..Len(@) |->
               <<@[i][1], [@[i][2] EXCEPT !.isAttribute = FALSE, !.readOnly = FALSE,
                                          !.type = Unflagged(@)]>>]]
  ELSE IF t.type = "array" THEN [t EXCEPT !.items.type = Unflagged(@)]
  ELSE IF t.type = "record" THEN [t EXCEPT !.value = Unflagged(@)]
  ELSE IF t.type = "union"
    THEN [t EXCEPT !.items = [i \in 1..Len(@) |-> Unflagged(@[i])]]
  ELSE t

\* the properties type and the definitions of a graph, flags cleared
UnflaggedGraph(rt) ==
  [properties |-> [rt.properties EXCEPT !.type = Unflagged(@)],
   definitions |-> [i \in 1..Len(rt.definitions) |->
                      <<rt.definitions[i][1],
                        [rt.definitions[i][2] EXCEPT !.type = Unflagged(@)]>>]]

RECURSIVE SameButRenamed(_, _, _)
SameButRenamed(before, after, aws) ==
  IF before.type # after.type \/ before.id # after.id THEN FALSE
  ELSE IF before.type = "object"
    THEN LET kept == SelectSeq(after.properties, LAMBDA e : HasProperty(before, e[1]))
             moved == SelectSeq(after.properties, LAMBDA e : ~ HasProperty(before, e[1]))
             stayed == SelectSeq(before.properties,
                                 LAMBDA e : \A i \in 1..Len(moved) :
                                              MangledName(moved[i][1]) # e[1])
             same(a, b) == /\ a.documentation = b.documentation
                           /\ SameButRenamed(a.type, b.type, aws)
         IN /\ after.required = before.required
            /\ Len(after.properties) = Len(before.properties)
            /\ Len(kept) = Len(stayed)
            /\ \A i \in 1..Len(kept) :
                 kept[i][1] = stayed[i][1] /\ same(stayed[i][2], kept[i][2])
            /\ \A i \in 1..Len(moved) :
                 /\ aws
                 /\ HasProperty(before, MangledName(moved[i][1]))
                 /\ same(Property(before, MangledName(moved[i][1])), moved[i][2])
            /\ moved = SubSeq(after.properties, Len(kept) + 1, Len(after.properties))
  ELSE IF before.type = "array"
    THEN /\ Without(before.items, {"type"}) = Without(after.items, {"type"})
         /\ SameButRenamed(before.items.type, after.items.type, aws)
  ELSE IF before.type = "record" THEN SameButRenamed(before.value, after.value, aws)
  ELSE IF before.type = "union"
    THEN /\ Len(before.items) = Len(after.items)
         /\ \A i \in 1..Len(before.items) :
              SameButRenamed(before.items[i], after.items[i], aws)
  ELSE before = after

RECURSIVE HasAttributeChild(_, _)
HasAttributeChild(rt, type) ==
  IF type.type = "object"
    THEN \E i \in 1..Len(type.properties) : type.properties[i][2].isAttribute
  ELSE IF type.type = "array" THEN HasAttributeChild(rt, type.items.type)
  ELSE IF type.type = "reference"
    THEN HasDefinition(rt, type.name)
           /\ HasAttributeChild(rt, Definition(rt, type.name).type)
  ELSE IF type.type = "union"
    THEN \E i \in 1..Len(type.items) : HasAttributeChild(rt, type.items[i])
  ELSE FALSE

\* the ancestor paths #analyzePaths goes through
Breadcrumbs == getBreadcrumbs(ReadOnlyPaths)

\* C24: an ancestor property that breadcrumb processing comes by is marked
\* isAttribute whenever at least one child property of its type (looked up
\* through arrays, references and unions) is marked isAttribute.
C24_AncestorOfAttributeIsAttribute ==
  Built =>
    \A i \in 1..Len(Breadcrumbs) :
      \A k \in 1..Len(ResolvedBy(Breadcrumbs[i])) :
        HasAttributeChild(root, TypeAt(root, ResolvedBy(Breadcrumbs[i])[k]))
          => PropertyAt(root, ResolvedBy(Breadcrumbs[i])[k]).isAttribute

\* the PropertyInfo nodes a path resolves to from the node at `addr`:
\* descending objects by property name, arrays by a "*" segment, named
\* definitions by dereferencing, and every branch of a union
RECURSIVE ResolvesTo(_, _, _)
ResolvesTo(rt, addr, parts) ==
  LET node == TypeAt(rt, addr) IN
    IF parts = <<>> THEN {}
    ELSE IF node.type = "reference"
      THEN IF HasDefinition(rt, node.name)
             THEN ResolvesTo(rt, DefAddr(node.name), parts) ELSE {}
    ELSE IF node.type = "union"
      THEN UNION {ResolvesTo(rt, Down(addr, MemberStep(i)), parts)
                  : i \in 1..Len(node.items)}
    ELSE IF Head(parts) = "*"
      THEN IF node.type = "array"
             THEN ResolvesTo(rt, Down(addr, ItemsStep), Tail(parts)) ELSE {}
    ELSE IF node.type = "object" /\ HasProperty(node, Head(parts))
      THEN IF Len(parts) = 1 THEN {Down(addr, PropStep(Head(parts)))}
           ELSE ResolvesTo(rt, Down(addr, PropStep(Head(parts))), Tail(parts))
    ELSE {}

PathResolvesTo(rt, path) ==
  IF Len(path) >= 2 /\ path[1] = "properties"
    THEN ResolvesTo(rt, RootAddr, Tail(path)) ELSE {}

\* build() at the point where the explicit paths have been processed and no
\* breadcrumb has
AfterExplicitPaths ==
  With(walkDocument(resourceSchema, RelevantKeys), LAMBDA walked :
    markExplicitPaths(BuildState(walked.rt, walked.s.w, walked.s.x), resourceSchema))

\* C25: once the explicit paths have been processed and before any
\* breadcrumb promotion, every PropertyInfo a readOnlyProperties path
\* resolves to (through objects, "*" segments, definitions and every branch
\* of a union) has readOnly = true.
C25_ExplicitPathsAreReadOnly ==
  (BuildEnded /\ ~ AfterExplicitPaths.x) =>
    \A i \in 1..Len(ReadOnlyPaths) :
      \A addr \in PathResolvesTo(AfterExplicitPaths.root, ReadOnlyPaths[i]) :
        PropertyAt(AfterExplicitPaths.root, addr).readOnly

\* a path that resolves to a property in each of two branches of a union
C25_Witness ==
  /\ Built
  /\ \E i \in 1..Len(ReadOnlyPaths) :
       Cardinality(PathResolvesTo(AfterExplicitPaths.root, ReadOnlyPaths[i])) = 2

\* whether a type contains an object or a record, looking through arrays,
\* references to existing definitions and the members of unions
RECURSIVE ContainsObjectOrRecord(_, _, _)
ContainsObjectOrRecord(rt, type, seen) ==
  IF type.type = "array" THEN ContainsObjectOrRecord(rt, type.items.type, seen)
  ELSE IF type.type = "reference"
    THEN /\ type.name \notin seen
         /\ HasDefinition(rt, type.name)
         /\ ContainsObjectOrRecord(rt, Definition(rt, type.name).type,
                                   seen \cup {type.name})
  ELSE IF type.type = "union"
    THEN \E i \in 1..Len(type.items) : ContainsObjectOrRecord(rt, type.items[i], seen)
  ELSE type.type \in {"object", "record"}

\* the paths passed to #addAttribute: the readOnlyProperties of the document,
\* then the extra attributes of its type name
ExplicitPaths ==
  ReadOnlyPaths \o (IF resourceSchema["typeName"] \in DOMAIN ExtraAttributes
                      THEN ExtraAttributePaths(resourceSchema["typeName"])
                      ELSE <<>>)

AttributeNames ==
  IF HasAttributes(root) THEN NamesOf(root.attributes.type.properties) ELSE {}

\* build() at the point where #analyzePaths has returned and the extra
\* attributes have not been added
AfterAnalysis ==
  With(walkDocument(resourceSchema, RelevantKeys), LAMBDA walked :
    analyzePaths(BuildState(walked.rt, walked.s.w, walked.s.x), resourceSchema))

\* the properties that the paths resolve to in `after` and that are marked
\* isAttribute there without having been marked in `before`
NewlyMarked(before, after, paths) ==
  {addr \in UNION {PathResolvesTo(after, paths[i]) : i \in 1..Len(paths)} :
     /\ PropertyAt(after, addr).isAttribute
     /\ \A i \in 1..Len(paths) :
          addr \in PathResolvesTo(before, paths[i]) =>
            ~ PropertyAt(before, addr).isAttribute}

MarkedOnlyIfPlain(before, after, paths) ==
  \A addr \in NewlyMarked(before, after, paths) :
    /\ ~ ContainsObjectOrRecord(after, TypeAt(after, addr), {})
    /\ \E j \in 1..Len(paths) :
         /\ "*" \notin Range(paths[j])
         /\ addr \in PathResolvesTo(after, paths[j])

\* C26: a property reached by an explicit path is marked isAttribute by
\* #addAttribute, and is an entry of the attributes type, only if the path
\* contains no "*" and the property's type contains no object or record
\* through arrays, references and unions; a path with a "*" never produces
\* an attribute.
C26_AttributeOnlyIfPlainPathAndLeafType ==
  Built =>
    /\ MarkedOnlyIfPlain(WalkedGraph, AfterExplicitPaths.root, ReadOnlyPaths)
    /\ MarkedOnlyIfPlain(AfterAnalysis.root, root, ExplicitPaths)
    /\ \A name \in AttributeNames :
         /\ ~ ContainsObjectOrRecord(root, Property(root.attributes.type, name).type, {})
         /\ \E j \in 1..Len(ExplicitPaths) :
              /\ "*" \notin Range(ExplicitPaths[j])
              /\ AttributeName(ExplicitPaths[j]) = name
    /\ \A i \in 1..Len(ExplicitPaths) :
         "*" \in Range(ExplicitPaths[i]) =>
           AttributeName(ExplicitPaths[i]) \notin AttributeNames

\* a plain path to a property whose type holds an object behind a reference
\* or an array was processed and produced no attribute
C26_Witness ==
  /\ Built
  /\ \E i \in 1..Len(ExplicitPaths) :
       /\ "*" \notin Range(ExplicitPaths[i])
       /\ \E addr \in PathResolvesTo(root, ExplicitPaths[i]) :
            /\ TypeAt(root, addr).type \in {"reference", "array"}
            /\ ContainsObjectOrRecord(root, TypeAt(root, addr), {})
            /\ AttributeName(ExplicitPaths[i]) \notin AttributeNames

\* a path with a "*" was processed, its property was found, and it produced
\* no attribute
WildcardPathProcessed ==
  /\ Built
  /\ \E i \in 1..Len(ExplicitPaths) :
       /\ "*" \in Range(ExplicitPaths[i])
       /\ \E addr \in PathResolvesTo(root, ExplicitPaths[i]) :
            ~ PropertyAt(root, addr).isAttribute

\* a fragment with no type field whose fields include format or pattern,
\* and to which no shape before string applies
ImpliesString(schema) ==
  /\ ~ Has(schema, "type")
  /\ Has(schema, "format") \/ Has(schema, "pattern")
  /\ FirstShape(schema) = "string"

PropertySchemaOf(i) == resourceSchema["properties"][i][2]

WalkedPropertyType(i) == root.properties.type.properties[i][2].type

StringAsProperty ==
  \A i \in 1..Len(resourceSchema["properties"]) :
    ImpliesString(PropertySchemaOf(i)) => WalkedPropertyType(i).type = "string"

StringAsItems ==
  \A i \in 1..Len(resourceSchema["properties"]) :
    (/\ AppliesTo("array", PropertySchemaOf(i))
     /\ FirstShape(PropertySchemaOf(i)) = "array"
     /\ Has(PropertySchemaOf(i), "items")
     /\ ImpliesString(PropertySchemaOf(i)["items"]))
      => WalkedPropertyType(i).items.type.type = "string"

StringAsDefinition ==
  Has(resourceSchema, "definitions") =>
    \A j \in 1..Len(resourceSchema["definitions"]) :
      ImpliesString(resourceSchema["definitions"][j][2]) =>
        Definition(root, resourceSchema["definitions"][j][1]).type.type = "string"

StringAsBranch ==
  \A i \in 1..Len(resourceSchema["properties"]) :
    (/\ DOMAIN PropertySchemaOf(i) = {"anyOf"}
     /\ \E k \in 1..Len(PropertySchemaOf(i)["anyOf"]) :
          ImpliesString(PropertySchemaOf(i)["anyOf"][k])
     /\ WalkedPropertyType(i).type = "union")
      => \E m \in 1..Len(WalkedPropertyType(i).items) :
           WalkedPropertyType(i).items[m].type = "string"

StringAsPatternValue ==
  \A i \in PatternProperties :
    ImpliesString(PatternFragment(i).schema) => PatternFragment(i).type.type = "string"

\* C27: the walker produces the string Type for a fragment with no type
\* field whose fields include format or pattern, wherever the fragment
\* occurs: as a property, as the items of an array, as a definition, as a
\* branch of a union or as the value of a record under a pattern.
C27_UntypedFormatIsString ==
  (Built /\ RootWalked) =>
    /\ StringAsProperty
    /\ StringAsItems
    /\ StringAsDefinition
    /\ StringAsBranch
    /\ StringAsPatternValue

\* the places where the fragment reaches #walkType with its format or
\* pattern: a branch of a union and the value of a record
StringWhereNotExtracted ==
  (Built /\ RootWalked) => StringAsBranch /\ StringAsPatternValue

\* a two-property {Key, Value} pair of strings
IsKeyValuePair(type) ==
  /\ type.type = "object"
  /\ Len(type.properties) = 2
  /\ NamesOf(type.properties) = {"Key", "Value"}
  /\ \A i \in 1..2 : type.properties[i][2].type.type = "string"

\* the object the writable view holds for an object node: its properties
\* that are not flagged readOnly, and its required names among them
WritableObject(type) ==
  LET kept == SelectSeq(type.properties, LAMBDA e : ~ e[2].readOnly) IN
    [type |-> "object", id |-> type.id, properties |-> kept,
     required |-> SelectSeq(type.required, LAMBDA x : x \in NamesOf(kept))]

\* simplifyType in "resource" mode, for the node at `addr`
WritableOf(rt, addr) ==
  simplifyType(rt, "resource", "import:Tag", GraphNode(rt, addr), MaxDepth)

\* what the writable view is to return for the node at `addr`
WritableAsStated(rt, addr) ==
  LET type == TypeAt(rt, addr) IN
    IF type.type = "object" THEN WritableOf(rt, addr).t = WritableObject(type)
    ELSE IF type.type = "reference" /\ HasDefinition(rt, type.name)
      THEN LET target == Definition(rt, type.name).type IN
        IF EndsWithTag(type.name) /\ IsKeyValuePair(target)
          THEN WritableOf(rt, addr).t
                 = [type |-> "reference", id |-> type.id, name |-> "import:Tag"]
        ELSE IF target.type \in {"enum", "union", "object"}
          THEN WritableOf(rt, addr).t = type
        ELSE WritableOf(rt, addr).t = WritableOf(rt, DefAddr(type.name)).t
    ELSE TRUE

RECURSIVE WritableAsStatedBelow(_, _)
WritableAsStatedBelow(rt, addr) ==
  /\ WritableOf(rt, addr) # Diverged => WritableAsStated(rt, addr)
  /\ \A child \in ChildAddrs(rt, addr) : WritableAsStatedBelow(rt, child)

GeneratorBeforeTypes ==
  createTypeReference(Generator({}),
                      IF HasAttributes(root)
                        THEN "import:ResourceDefinitionWithAttributes"
                        ELSE "import:ResourceDefinition", <<>>).g

\* the two declarations rendered in the other order: the attributes type
\* first, then the properties type with the generator the first call left
AttributesFirst ==
  With(generateTypeDefinition(root, AttributesMode, GeneratorBeforeTypes,
                              mangledTypeName(root.typeName) \o "Attribs",
                              AttrAddr, MaxDepth), LAMBDA attribs :
  With(generateTypeDefinition(root, ResourceMode, attribs.g,
                              mangledTypeName(root.typeName) \o "Props",
                              RootAddr, MaxDepth), LAMBDA props :
    [attribs |-> attribs.out, props |-> props.out,
     referencedNames |-> props.g.referencedNames, failed |-> Failed(props.g)]))

\* main has rendered the properties type and then the attributes type
RenderedBoth == pc = "pass" /\ HasAttributes(root) /\ definitions = <<>> /\ thisPass = 0

SameInEitherOrder ==
  RenderedBoth =>
    /\ ~ AttributesFirst.failed
    /\ statements[2] = AttributesFirst.props
    /\ statements[3] = AttributesFirst.attribs
    /\ referencedNames = AttributesFirst.referencedNames

SelfProperties(name) ==
  LET type == Definition(root, name).type IN
    IF type.type # "object" THEN {}
    ELSE { type.properties[i][1] :
             i \in { j \in 1..Len(type.properties) :
                       /\ type.properties[j][2].type.type = "reference"
                       /\ type.properties[j][2].type.name = name
                       /\ ~ type.properties[j][2].readOnly } }

\* a rendered type that is the name, or the name or undefined
NamesType(node, name) ==
  \/ node.kind = "reference" /\ node.typeName = name
  \/ /\ node.kind = "union"
     /\ Len(node.types) = 2
     /\ node.types[1].kind = "reference" /\ node.types[1].typeName = name
     /\ node.types[2] = KeywordTypeNode("undefined")

\* C8: a definition A whose object type has a property of type
\* reference-to-A is simplified and rendered in finitely many steps, and
\* the declaration rendered for A refers to A by name instead of expanding
\* it.
C8_SelfReferenceByName ==
  /\ pc = "diverged" => \A name \in NamesOf(root.definitions) : SelfProperties(name) = {}
  /\ \A i \in 1..Len(definitions) :
       \A p \in SelfProperties(definitions[i][1]) :
         /\ definitions[i][2].type.kind = "typeLiteral"
         /\ p \in MemberNames(definitions[i][2].type)
         /\ NamesType(Member(definitions[i][2].type, p).type, definitions[i][1])

C8_Witness ==
  /\ pc = "done"
  /\ \E i \in 1..Len(definitions) : SelfProperties(definitions[i][1]) # {}

\* C9: the emit loop terminates for every definitions table, whatever the
\* order in which the definitions refer to each other, and the set of
\* referenced names only grows while it runs.
C9_EmitLoopTerminates ==
  /\ [][referencedNames \subseteq referencedNames']_vars
  /\ (pc = "pass") ~> (pc = "done")

\* the loop has ended after more than two passes over definitions that
\* refer to each other in a cycle
C9_Witness ==
  /\ pc = "done"
  /\ Len(definitions) = 3
  /\ root.definitions[1][1] = "A" /\ root.definitions[2][1] = "B"

\* the symbols a rendered type refers to
RECURSIVE Symbols(_)
Symbols(node) ==
  IF node.kind = "reference"
    THEN (IF "symbol" \in DOMAIN node THEN {node.symbol} ELSE {})
           \cup UNION {Symbols(node.typeArguments[i]) : i \in 1..Len(node.typeArguments)}
  ELSE IF node.kind = "array" THEN Symbols(node.elementType)
  ELSE IF node.kind = "union"
    THEN UNION {Symbols(node.types[i]) : i \in 1..Len(node.types)}
  ELSE IF node.kind = "typeLiteral"
    THEN UNION {Symbols(node.members[i].type) : i \in 1..Len(node.members)}
  ELSE {}

DefinitionNames == NamesOf(root.definitions)
EmittedNames == NamesOf(definitions)

\* the definitions the emitted declarations refer to
ReferencedInOutput ==
  DefinitionNames
    \cap UNION { Symbols(statements[i].type) :
                   i \in {j \in 1..Len(statements) : "type" \in DOMAIN statements[j]} }

\* C10: when the emit loop ends, the emitted definitions are the definitions
\* whose names are in the referenced-names set, each emitted once; every
\* definition referred to from the properties type, the attributes type or
\* an emitted definition is emitted, and no other definition is.
C10_EmittedAreReferenced ==
  pc = "done" =>
    /\ EmittedNames = DefinitionNames \cap referencedNames
    /\ Len(definitions) = Cardinality(EmittedNames)
    /\ ReferencedInOutput = EmittedNames

C10_Witness ==
  /\ pc = "done"
  /\ EmittedNames # {}
  /\ "Unused" \in DefinitionNames \ EmittedNames

====
